---- MODULE Spec2Model ----
(***************************************************************************)
(* A model of mini-redis: the shared keyspace with its expiration index    *)
(* and background sweeper (src/src/db.rs), the pub/sub topics and the      *)
(* subscription loop (src/src/db.rs, src/src/cmd/subscribe.rs), and the    *)
(* listener, handlers and shutdown handshake (src/src/server.rs).          *)
(*                                                                         *)
(* Every critical section of the state mutex is one action, so every state *)
(* of the model is a state in which the state lock is free.                *)
(***************************************************************************)
EXTENDS Integers, Sequences, FiniteSets, TLC

\* ---------------------------------------------------------------- bounds
\* The clock runs from 0 to MaxTime.
MaxTime == 2
\* The largest expiry delta a SET carries (EX/PX), in clock ticks.
MaxDuration == 2

\* The capacity of a topic's broadcast ring, standing for
\* broadcast::channel(1024) (db.rs:109).
RingCapacity == 2
\* PUBLISH commands applied in a run.
MaxPublish == 3
\* SUBSCRIBE and UNSUBSCRIBE commands read in a run.
MaxSubCmds == 2
\* The permits of the connection semaphore, standing for
\* MAX_CONNECTIONS = 250 (server.rs:57).
MAX_CONNECTIONS == 2
\* Connections accepted in a run.
MaxHandlers == 3
\* Writes of the peer on the connection whose reads are followed.
MaxWrites == 2
\* Connections accepted in a run in which the keyspace is followed too.
MaxLifecycleHandlers == 2
\* Command frames the client of the followed command loop sends.
MaxCmds == 3

Keys == {"k1", "k2"}
Values == {"v1", "v2"}
\* Client connections that issue GET and SET.
Conns == {"c1", "c2"}
\* Client connections: x and y send SUBSCRIBE and UNSUBSCRIBE, p sends
\* PUBLISH.
Subscribers == {"x", "y"}
Publishers == {"p"}
PsConns == Subscribers \cup Publishers
Channels == {"ch1", "ch2"}
\* The channel lists a SUBSCRIBE or UNSUBSCRIBE carries.
ChannelLists ==
    {<<>>} \cup {<<a>> : a \in Channels} \cup {<<a, b>> : a \in Channels, b \in Channels}
\* The handler tasks, in the order they are spawned.
Handlers == 1..MaxHandlers
\* The handler tasks of a run in which the keyspace is followed too.
LifecycleHandlers == 1..MaxLifecycleHandlers
\* Option<Duration>: the empty set is None, {d} is Some(d).
Expires == {{}} \cup {{d} : d \in 0..MaxDuration}

VARIABLES
    \* ---- State (db.rs:22-28), behind Shared.state
    entries,          \* HashMap<String, Entry>: key |-> [data, expires_at]
    expirations,      \* BTreeSet<(Instant, String)>: set of <<t, key>>
    db_shutdown,      \* State.shutdown
    \* ---- the clock (tokio::time::Instant::now)
    now,
    \* ---- the sweeper task (db.rs:178-194)
    sweeper_pc,       \* "check" | "sweep" | "arm" | "wait" | "done"
    sweeper_when,     \* next_expiration: {} is None, {t} is Some(t)
    sweeper_notified, \* the sweeper's Notified future has been woken
    \* ---- the wire: the frame last written to each connection
    reply,
    \* ---- history: the most recent SET applied to each key
    last_set,
    \* ---- State.pub_sub (db.rs:26): the channels that have a sender
    pub_sub,
    \* ---- each sender's ring: every value sent, the last RingCapacity retained
    sent,
    \* ---- PUBLISH commands applied so far; the next payload is npub + 1
    npub,
    \* ---- SUBSCRIBE and UNSUBSCRIBE commands read so far
    ncmds,
    \* ---- the handler of each pub/sub connection
    ps_pc,            \* "normal" | "subscribing" | "inserting" | "subscribed"
                      \* | "unsubscribing" | "closed"
    subscriptions,    \* StreamMap<String, Message>: Vec of [channel, next]
    pending_rx,       \* the receiver Db::subscribe returned, not yet inserted
    todo,             \* the channels the current command has yet to process
    written,          \* the frames written to the connection, in order
    \* ---- history of each subscription the connection holds: the ring's
    \* length when its first confirmation was written (confirmed), the
    \* position its current receiver started from (from), whether it lagged
    hist,
    \* ---- server::run, Listener::run and the spawned handler tasks
    run_pc,           \* "select" | "drop_notify" | "drop_tx" | "wait" | "returned"
    listener_pc,      \* "acquire" | "accept" | "stopped"
    permits,          \* free permits of limit_connections
    notify_alive,     \* the notify_shutdown sender has not been dropped
    listener_tx,      \* the listener's shutdown_complete_tx has not been dropped
    h_state,          \* per task: "none" | "running" | "returned"
                      \* | "released" | "gone"
    h_result,         \* what Handler::run returned: "none" | "ok" | "err"
    h_tx,             \* the task holds a clone of shutdown_complete_tx
    h_pc,             \* inside Handler::run: "loop" | "select" | "apply"
                      \* | "sub_select" | "sub_apply" | "sub_write";
                      \* outside it: "none" | "done"
    is_shutdown,      \* Shutdown::is_shutdown of the handler
    run_res,          \* how the select of server::run completed:
                      \* "none" | "shutdown" | "accept_err"
    \* ---- one connection's inbound side: Connection::read_frame and its peer
    wire,             \* bytes the peer has written that no read has returned
    peer_closed,      \* the peer has closed its end
    nwrites,          \* writes of the peer so far
    buffer,           \* Connection::buffer
    rf_pc,            \* read_frame: "parse" | "read" | "ended"
    rf_out,           \* what the calls of read_frame returned, in order
    bytewise,         \* every socket read so far returned one byte
    peer_frames,      \* the frames the peer has written with write_frame
    raw_sent,         \* the peer has written bytes other than such frames
    last_write,       \* the peer's last write_frame, if any: frame and result
    last_parse,       \* the last Frame::parse, if any: buffer and result
    rf_abandoned,     \* a pending read_frame was dropped by a select
    \* ---- one connection's command loop, fed by a pipelining client
    conn_in,          \* the command frames read_frame has yet to return
    conn_log,         \* every command frame that arrived, in order
    conn_pc,          \* "normal" | "subscribe" | "closed"
    conn_subs,        \* the StreamMap of Subscribe::apply
    conn_out          \* the frames written, each with the number of the
                      \* command it answers (0 for a message) and the
                      \* frames buffered when that command was taken

dbVars == <<entries, expirations, db_shutdown, now, sweeper_pc, sweeper_when,
            sweeper_notified, reply, last_set>>

psVars == <<pub_sub, sent, npub, ncmds, ps_pc, subscriptions, pending_rx,
            todo, written, hist>>

srvVars == <<run_pc, listener_pc, permits, notify_alive, listener_tx,
             h_state, h_result, h_tx, h_pc, is_shutdown, run_res>>

codecVars == <<wire, peer_closed, nwrites, buffer, rf_pc, rf_out, bytewise,
               peer_frames, raw_sent, last_write, last_parse, rf_abandoned>>

connVars == <<conn_in, conn_log, conn_pc, conn_subs, conn_out>>

vars == <<dbVars, psVars, srvVars, codecVars, connVars>>

\* ---------------------------------------------------------------- frames
Simple(s) == [type |-> "Simple", val |-> s]
Bulk(b) == [type |-> "Bulk", val |-> b]
Null == [type |-> "Null", val |-> ""]
NoFrame == [type |-> "None", val |-> ""]

\* The largest element of a non-empty set of clock values.
MaxOf(S) == CHOOSE x \in S : \A y \in S : x >= y

\* The smallest element of a non-empty set of clock values.
MinOf(S) == CHOOSE x \in S : \A y \in S : x <= y

\* ---------------------------------------------------------------- Db
\* Db::get: the stored bytes, or None.
DbGet(k) == IF k \in DOMAIN entries THEN {entries[k].data} ELSE {}

\* Get::apply: Bulk for Some, Null for None.
Get(c, k) ==
    /\ reply' = [reply EXCEPT ![c] =
                    IF DbGet(k) = {} THEN Null
                    ELSE Bulk(CHOOSE v \in DbGet(k) : TRUE)]
    /\ UNCHANGED <<entries, expirations, db_shutdown, now, sweeper_pc,
                   sweeper_when, sweeper_notified, last_set>>
    /\ UNCHANGED <<psVars, srvVars, codecVars, connVars>>

\* A Db::set that leaves the old entry's pair in the index.
SetRemoveOldNever(k) == expirations

\* The index after Db::set has removed the old entry's pair (db.rs:77-81).
SetRemoveOld(k) ==
    IF k \in DOMAIN entries
    THEN expirations \ {<<t, k>> : t \in entries[k].expires_at}
    ELSE expirations

\* A Notified future of background_task exists: the sweeper has evaluated
\* notified() (db.rs:186, 190) and has not yet resumed.
SweeperArmed == sweeper_pc = "wait"

\* Whether Db::set calls notify_waiters (db.rs:83-91): the new expiry is
\* earlier than the first pair of the index, or the index is empty.
SetNotifies(k, expires_at) ==
    /\ expires_at # {}
    /\ \/ SetRemoveOld(k) = {}
       \/ \E t \in expires_at :
             t < MinOf({p[1] : p \in SetRemoveOld(k)})

\* Db::set: expires_at = Instant::now() + duration (db.rs:66), then the
\* critical section (db.rs:68-93).
DbSet(k, v, expire) ==
    LET expires_at == {now + d : d \in expire}
    IN /\ entries' = [x \in DOMAIN entries \cup {k} |->
                         IF x = k THEN [data |-> v, expires_at |-> expires_at]
                         ELSE entries[x]]
       /\ expirations' = SetRemoveOld(k) \cup {<<t, k>> : t \in expires_at}
       \* Notify::notify_waiters wakes only the futures that exist now.
       /\ sweeper_notified' =
             IF SetNotifies(k, expires_at) /\ SweeperArmed
             THEN TRUE ELSE sweeper_notified
       /\ last_set' = [last_set EXCEPT ![k] =
                          {[data |-> v, expires_at |-> expires_at]}]

\* Set::apply: Db::set, then Simple "OK".
Set(c, k, v, expire) ==
    /\ \A d \in expire : now + d <= MaxTime
    /\ DbSet(k, v, expire)
    /\ reply' = [reply EXCEPT ![c] = Simple("OK")]
    /\ UNCHANGED <<db_shutdown, now, sweeper_pc, sweeper_when>>
    /\ UNCHANGED <<psVars, srvVars, codecVars, connVars>>

\* ---------------------------------------------------------------- sweeper
\* A sweep that takes a pair one tick before its time.
ExpiredEarly == {p \in expirations : p[1] <= now + 1}

\* The pairs Shared::clean_expired_tasks removes: those not after now.
Expired == {p \in expirations : p[1] <= now}

\* while !shared.is_shutdown() (db.rs:179)
SweeperCheck ==
    /\ sweeper_pc = "check"
    /\ sweeper_pc' = IF db_shutdown THEN "done" ELSE "sweep"
    /\ UNCHANGED <<entries, expirations, db_shutdown, now, sweeper_when,
                   sweeper_notified, reply, last_set>>
    /\ UNCHANGED <<psVars, srvVars, codecVars, connVars>>

\* Shared::clean_expired_tasks (db.rs:143-164), one critical section.
SweeperSweep ==
    /\ sweeper_pc = "sweep"
    /\ IF db_shutdown
       THEN /\ sweeper_when' = {}
            /\ UNCHANGED <<entries, expirations>>
       ELSE /\ entries' = [x \in DOMAIN entries \ {p[2] : p \in Expired} |->
                              entries[x]]
            /\ expirations' = expirations \ Expired
            /\ sweeper_when' =
                  IF expirations \ Expired = {} THEN {}
                  ELSE {MinOf({p[1] : p \in expirations \ Expired})}
    /\ sweeper_pc' = "arm"
    /\ UNCHANGED <<db_shutdown, now, sweeper_notified, reply, last_set>>
    /\ UNCHANGED <<psVars, srvVars, codecVars, connVars>>

\* shared.background_task.notified() (db.rs:186, 190): the Notified future
\* is created after clean_expired_tasks has released the lock.
SweeperArm ==
    /\ sweeper_pc = "arm"
    /\ sweeper_notified' = FALSE
    /\ sweeper_pc' = "wait"
    /\ UNCHANGED <<entries, expirations, db_shutdown, now, sweeper_when,
                   reply, last_set>>
    /\ UNCHANGED <<psVars, srvVars, codecVars, connVars>>

\* The select of sleep_until(when) and notified(), or notified() alone.
SweeperWake ==
    /\ sweeper_pc = "wait"
    /\ \/ sweeper_notified
       \/ \E t \in sweeper_when : now >= t
    /\ sweeper_notified' = FALSE
    /\ sweeper_pc' = "check"
    /\ UNCHANGED <<entries, expirations, db_shutdown, now, sweeper_when,
                   reply, last_set>>
    /\ UNCHANGED <<psVars, srvVars, codecVars, connVars>>

\* The clock advances.
Tick ==
    /\ now < MaxTime
    /\ now' = now + 1
    /\ UNCHANGED <<entries, expirations, db_shutdown, sweeper_pc, sweeper_when,
                   sweeper_notified, reply, last_set>>
    /\ UNCHANGED <<psVars, srvVars, codecVars, connVars>>

\* ---------------------------------------------------------------- pub/sub
SubscribeFrame(ch, n) == [kind |-> "subscribe", channel |-> ch, n |-> n]
UnsubscribeFrame(ch, n) == [kind |-> "unsubscribe", channel |-> ch, n |-> n]
MessageFrame(ch, m) == [kind |-> "message", channel |-> ch, n |-> m]
Integer(n) == [kind |-> "integer", channel |-> "", n |-> n]

\* StreamMap: a Vec of (key, stream); a stream is its receiver's position,
\* the number of values of the ring it is past.
SmKeys(m) == {m[i].channel : i \in DOMAIN m}
SmIndex(m, ch) == CHOOSE i \in DOMAIN m : m[i].channel = ch
SmNext(m, ch) == m[SmIndex(m, ch)].next
\* StreamMap::remove: swap_remove of the entry with this key, if any.
SmRemove(m, ch) ==
    IF ch \notin SmKeys(m) THEN m
    ELSE [j \in 1..(Len(m) - 1) |-> IF j = SmIndex(m, ch) THEN m[Len(m)] ELSE m[j]]
\* An insert that pushes without removing the key first.
SmInsertPush(m, ch, next) == Append(m, [channel |-> ch, next |-> next])

\* StreamMap::insert: remove the key, then push.
SmInsert(m, ch, next) == Append(SmRemove(m, ch), [channel |-> ch, next |-> next])
\* StreamMap::keys, in the Vec's order.
SmKeyList(m) == [i \in DOMAIN m |-> m[i].channel]
SmSetNext(m, ch, next) ==
    [i \in DOMAIN m |-> IF m[i].channel = ch THEN [m[i] EXCEPT !.next = next] ELSE m[i]]

\* The receivers of channel ch that exist (the sender's rx_cnt): one per
\* stream in a StreamMap, one per receiver returned and not yet inserted.
RxCount(ch) ==
    Cardinality({c \in PsConns : ch \in SmKeys(subscriptions[c])})
    + Cardinality({c \in PsConns : \E rx \in pending_rx[c] : rx.channel = ch})

\* The handler has returned: its StreamMap and receivers are dropped.
Dropped(c) ==
    /\ ps_pc' = [ps_pc EXCEPT ![c] = "closed"]
    /\ subscriptions' = [subscriptions EXCEPT ![c] = <<>>]
    /\ pending_rx' = [pending_rx EXCEPT ![c] = {}]
    /\ todo' = [todo EXCEPT ![c] = <<>>]
    /\ hist' = [hist EXCEPT ![c] = <<>>]

\* Db::publish, then Publish::apply writes Integer(num_subscribers).
\* Sender::send with no receiver is an error and stores nothing.
Publish(c, ch) ==
    /\ ps_pc[c] = "normal"
    /\ npub < MaxPublish
    /\ npub' = npub + 1
    /\ LET count == IF ch \in pub_sub THEN RxCount(ch) ELSE 0
       IN /\ sent' = IF count > 0
                     THEN [sent EXCEPT ![ch] = Append(@, npub + 1)]
                     ELSE sent
          /\ written' = [written EXCEPT ![c] = Append(@, Integer(count))]
    /\ UNCHANGED <<pub_sub, ncmds, ps_pc, subscriptions, pending_rx, todo, hist>>
    /\ UNCHANGED <<dbVars, srvVars, codecVars, connVars>>

\* Db::subscribe: under the lock, a receiver positioned at the sender's
\* tail; the sender is created if absent.
DbSubscribe(c, ch) ==
    /\ pub_sub' = pub_sub \cup {ch}
    /\ pending_rx' = [pending_rx EXCEPT ![c] =
                         {[channel |-> ch, next |-> Len(sent[ch])]}]
    /\ ps_pc' = [ps_pc EXCEPT ![c] = "inserting"]

\* A SUBSCRIBE frame is read and decoded, in Handler::run (Subscribe::apply)
\* or in the subscription loop (handle_command), and subscribe_channel
\* runs up to db.subscribe for the first channel: nothing suspends between.
Subscribe(c, chans) ==
    /\ ps_pc[c] \in {"normal", "subscribed"}
    /\ ncmds < MaxSubCmds
    /\ chans # <<>>
    /\ ncmds' = ncmds + 1
    /\ todo' = [todo EXCEPT ![c] = chans]
    /\ DbSubscribe(c, Head(chans))
    /\ UNCHANGED <<sent, npub, subscriptions, written, hist>>
    /\ UNCHANGED <<dbVars, srvVars, codecVars, connVars>>

\* subscribe_channel for a further channel of the list, after the previous
\* confirmation has been written.
SubscribeMore(c) ==
    /\ ps_pc[c] = "subscribing"
    /\ DbSubscribe(c, Head(todo[c]))
    /\ UNCHANGED <<sent, npub, ncmds, subscriptions, todo, written, hist>>
    /\ UNCHANGED <<dbVars, srvVars, codecVars, connVars>>

\* subscribe_channel, subscriptions.insert and the confirmation: the stream
\* replaces (and drops) one already held for the channel.
InsertStream(c) ==
    /\ ps_pc[c] = "inserting"
    /\ \E rx \in pending_rx[c] :
         LET ch == rx.channel
             m == SmInsert(subscriptions[c], ch, rx.next)
         IN /\ subscriptions' = [subscriptions EXCEPT ![c] = m]
            /\ written' = [written EXCEPT ![c] =
                              Append(@, SubscribeFrame(ch, Len(m)))]
            /\ hist' = [hist EXCEPT ![c] =
                  [x \in DOMAIN hist[c] \cup {ch} |->
                     IF x # ch THEN hist[c][x]
                     ELSE IF ch \in DOMAIN hist[c]
                          THEN [hist[c][ch] EXCEPT !.from = rx.next]
                          ELSE [confirmed |-> Len(sent[ch]),
                                from |-> rx.next, lagged |-> FALSE]]]
    /\ pending_rx' = [pending_rx EXCEPT ![c] = {}]
    /\ todo' = [todo EXCEPT ![c] = Tail(@)]
    /\ ps_pc' = [ps_pc EXCEPT ![c] =
                    IF Tail(todo[c]) = <<>> THEN "subscribed" ELSE "subscribing"]
    /\ UNCHANGED <<pub_sub, sent, npub, ncmds>>
    /\ UNCHANGED <<dbVars, srvVars, codecVars, connVars>>

\* One turn of the Unsubscribe loop of handle_command: remove the stream
\* (dropping its receiver) and write the reply.
RemoveStream(c, list) ==
    LET ch == Head(list)
        m == SmRemove(subscriptions[c], ch)
    IN /\ subscriptions' = [subscriptions EXCEPT ![c] = m]
       /\ written' = [written EXCEPT ![c] =
                         Append(@, UnsubscribeFrame(ch, Len(m)))]
       /\ hist' = [hist EXCEPT ![c] =
                      [x \in DOMAIN hist[c] \ {ch} |-> hist[c][x]]]
       /\ todo' = [todo EXCEPT ![c] = Tail(list)]
       /\ ps_pc' = [ps_pc EXCEPT ![c] =
                       IF Tail(list) = <<>> THEN "subscribed" ELSE "unsubscribing"]

\* An UNSUBSCRIBE frame is read in the subscription loop: an empty list is
\* every key of the StreamMap; the first channel is removed and its reply
\* written.
Unsubscribe(c, chans) ==
    /\ ps_pc[c] = "subscribed"
    /\ ncmds < MaxSubCmds
    /\ ncmds' = ncmds + 1
    /\ LET list == IF chans = <<>> THEN SmKeyList(subscriptions[c]) ELSE chans
       IN IF list = <<>>
          THEN UNCHANGED <<subscriptions, written, hist, todo, ps_pc>>
          ELSE RemoveStream(c, list)
    /\ UNCHANGED <<pub_sub, sent, npub, pending_rx>>
    /\ UNCHANGED <<dbVars, srvVars, codecVars, connVars>>

\* The Unsubscribe loop goes on to the next channel.
UnsubscribeMore(c) ==
    /\ ps_pc[c] = "unsubscribing"
    /\ RemoveStream(c, todo[c])
    /\ UNCHANGED <<pub_sub, sent, npub, ncmds, pending_rx>>
    /\ UNCHANGED <<dbVars, srvVars, codecVars, connVars>>

\* Receiver::recv returns Ok: the stream yields the value and the
\* subscription loop writes it as a message frame.
Deliver(c, ch) ==
    /\ ps_pc[c] = "subscribed"
    /\ ch \in SmKeys(subscriptions[c])
    /\ LET next == SmNext(subscriptions[c], ch)
       IN /\ next < Len(sent[ch])
          /\ next + RingCapacity >= Len(sent[ch])
          /\ subscriptions' = [subscriptions EXCEPT ![c] =
                                  SmSetNext(@, ch, next + 1)]
          /\ written' = [written EXCEPT ![c] =
                            Append(@, MessageFrame(ch, sent[ch][next + 1]))]
    /\ UNCHANGED <<pub_sub, sent, npub, ncmds, ps_pc, pending_rx, todo, hist>>
    /\ UNCHANGED <<dbVars, srvVars, codecVars, connVars>>

\* A receiver that resumes from the newest value after lagging.
LaggedNextNewest(ch) == Len(sent[ch])

\* The receiver's position after RecvError::Lagged: the oldest value the
\* ring still retains.
LaggedNext(ch) == Len(sent[ch]) - RingCapacity

\* Receiver::recv returns Lagged: the stream loops without yielding.
SkipLagged(c, ch) ==
    /\ ps_pc[c] = "subscribed"
    /\ ch \in SmKeys(subscriptions[c])
    /\ SmNext(subscriptions[c], ch) + RingCapacity < Len(sent[ch])
    /\ subscriptions' = [subscriptions EXCEPT ![c] =
                            SmSetNext(@, ch, LaggedNext(ch))]
    /\ hist' = [hist EXCEPT ![c][ch].lagged = TRUE]
    /\ UNCHANGED <<pub_sub, sent, npub, ncmds, ps_pc, pending_rx, todo, written>>
    /\ UNCHANGED <<dbVars, srvVars, codecVars, connVars>>

\* The handler returns: read_frame gave None or an error, or a write failed.
Close(c) ==
    /\ ps_pc[c] \in {"normal", "subscribed", "subscribing", "unsubscribing"}
    /\ Dropped(c)
    /\ UNCHANGED <<pub_sub, sent, npub, ncmds, written>>
    /\ UNCHANGED <<dbVars, srvVars, codecVars, connVars>>

\* ---------------------------------------------------------------- server
\* A semaphore that hands out a permit it does not have.
CanAcquireAlways == TRUE

\* limit_connections.acquire_owned() completes: a permit is free.
CanAcquire == permits > 0

\* Listener::run, acquire_owned().await (server.rs:25-30).
ListenerAcquire ==
    /\ run_pc = "select"
    /\ listener_pc = "acquire"
    /\ CanAcquire
    /\ permits' = permits - 1
    /\ listener_pc' = "accept"
    /\ UNCHANGED <<run_pc, notify_alive, listener_tx, h_state, h_result, h_tx,
                   h_pc, is_shutdown, run_res>>
    /\ UNCHANGED <<dbVars, psVars, codecVars, connVars>>

\* A Handler built without a clone of the completion sender.
HandlerTxNone == FALSE

\* Handler { .., _shutdown_complete_tx: self.shutdown_complete_tx.clone() }
HandlerTx == TRUE

\* Listener::run, accept returns a socket: the Handler is built and its
\* task spawned with the permit (server.rs:32-47).
ListenerAccept(h) ==
    /\ run_pc = "select"
    /\ listener_pc = "accept"
    /\ h_state[h] = "none"
    /\ \A g \in Handlers : g < h => h_state[g] # "none"
    /\ h_state' = [h_state EXCEPT ![h] = "running"]
    /\ h_pc' = [h_pc EXCEPT ![h] = "loop"]
    /\ h_tx' = [h_tx EXCEPT ![h] = HandlerTx]
    /\ listener_pc' = "acquire"
    /\ UNCHANGED <<run_pc, permits, notify_alive, listener_tx, h_result,
                   is_shutdown, run_res>>
    /\ UNCHANGED <<dbVars, psVars, codecVars, connVars>>

\* Listener::run, accept fails: `?` returns the error, dropping the permit,
\* and the select of server::run completes (server.rs:32, 71-76).
ListenerAcceptFails ==
    /\ run_pc = "select"
    /\ listener_pc = "accept"
    /\ permits' = permits + 1
    /\ listener_pc' = "stopped"
    /\ run_pc' = "drop_notify"
    /\ run_res' = "accept_err"
    /\ UNCHANGED <<notify_alive, listener_tx, h_state, h_result, h_tx, h_pc,
                   is_shutdown>>
    /\ UNCHANGED <<dbVars, psVars, codecVars, connVars>>

\* server::run, the shutdown future resolves: the select drops the
\* Listener::run future, and with it a permit it held (server.rs:71-78).
ShutdownResolves ==
    /\ run_pc = "select"
    /\ permits' = IF listener_pc = "accept" THEN permits + 1 ELSE permits
    /\ listener_pc' = "stopped"
    /\ run_pc' = "drop_notify"
    /\ run_res' = "shutdown"
    /\ UNCHANGED <<notify_alive, listener_tx, h_state, h_result, h_tx, h_pc,
                   is_shutdown>>
    /\ UNCHANGED <<dbVars, psVars, codecVars, connVars>>

\* server::run, drop(notify_shutdown) (server.rs:87).
RunDropNotify ==
    /\ run_pc = "drop_notify"
    /\ notify_alive' = FALSE
    /\ run_pc' = "drop_tx"
    /\ UNCHANGED <<listener_pc, permits, listener_tx, h_state, h_result, h_tx,
                   h_pc, is_shutdown, run_res>>
    /\ UNCHANGED <<dbVars, psVars, codecVars, connVars>>

\* server::run, drop(shutdown_complete_tx) (server.rs:88).
RunDropTx ==
    /\ run_pc = "drop_tx"
    /\ listener_tx' = FALSE
    /\ run_pc' = "wait"
    /\ UNCHANGED <<listener_pc, permits, notify_alive, h_state, h_result, h_tx,
                   h_pc, is_shutdown, run_res>>
    /\ UNCHANGED <<dbVars, psVars, codecVars, connVars>>

\* A recv() that returns although senders remain.
BarrierClosedAlways == TRUE

\* shutdown_complete_rx.recv() returns None: every sender has been dropped.
BarrierClosed == ~listener_tx /\ \A h \in Handlers : ~h_tx[h]

\* Drop for DbDropGuard (db.rs:45-49) calls Db::shutdown_clean_task
\* (db.rs:96-101): the flag is set under the lock, then notify_waiters wakes
\* the Notified future of the sweeper if one exists.
DbShutdownCleanTask ==
    /\ db_shutdown' = TRUE
    /\ sweeper_notified' = IF SweeperArmed THEN TRUE ELSE sweeper_notified

\* server::run, shutdown_complete_rx.recv().await returns (server.rs:90) and
\* the function ends: the fields left in `server` by the destructuring of
\* server.rs:81-85 are dropped here, db_holder among them.
RunReturn ==
    /\ run_pc = "wait"
    /\ BarrierClosed
    /\ run_pc' = "returned"
    /\ DbShutdownCleanTask
    /\ UNCHANGED <<listener_pc, permits, notify_alive, listener_tx, h_state,
                   h_result, h_tx, h_pc, is_shutdown, run_res>>
    /\ UNCHANGED <<entries, expirations, now, sweeper_pc, sweeper_when,
                   reply, last_set>>
    /\ UNCHANGED <<psVars, codecVars, connVars>>

\* Handler::run returns res.
Returns(h, res) ==
    /\ h_state' = [h_state EXCEPT ![h] = "returned"]
    /\ h_result' = [h_result EXCEPT ![h] = res]
    /\ h_pc' = [h_pc EXCEPT ![h] = "done"]

\* A loop that goes on after the shutdown was observed.
ShouldExitNever(h) == FALSE

\* while !self.shutdown.is_shutdown() (server.rs:103, shutdown.rs:16-18).
ShouldExit(h) == is_shutdown[h]

\* Handler::run, the loop condition: leave with Ok or enter the select
\* (server.rs:103, 122).
HandlerLoop(h) ==
    /\ h_state[h] = "running"
    /\ h_pc[h] = "loop"
    /\ IF ShouldExit(h)
          THEN Returns(h, "ok")
          ELSE /\ h_pc' = [h_pc EXCEPT ![h] = "select"]
               /\ UNCHANGED <<h_state, h_result>>
    /\ UNCHANGED <<run_pc, listener_pc, permits, notify_alive, listener_tx,
                   h_tx, is_shutdown, run_res>>
    /\ UNCHANGED <<dbVars, psVars, codecVars, connVars>>

\* Handler::run, read_frame returns a frame (server.rs:105, 111-112).
HandlerRead(h) ==
    /\ h_state[h] = "running"
    /\ h_pc[h] = "select"
    /\ h_pc' = [h_pc EXCEPT ![h] = "apply"]
    /\ UNCHANGED <<run_pc, listener_pc, permits, notify_alive, listener_tx,
                   h_state, h_result, h_tx, is_shutdown, run_res>>
    /\ UNCHANGED <<dbVars, psVars, codecVars, connVars>>

\* Handler::run, read_frame returns None (the peer closed: Ok) or an error
\* (server.rs:105, 113).
HandlerReturn(h, res) ==
    /\ h_state[h] = "running"
    /\ h_pc[h] = "select"
    /\ Returns(h, res)
    /\ UNCHANGED <<run_pc, listener_pc, permits, notify_alive, listener_tx,
                   h_tx, is_shutdown, run_res>>
    /\ UNCHANGED <<dbVars, psVars, codecVars, connVars>>

\* A notify.recv() that never completes.
ShutdownReadyNever == FALSE

\* self.notify.recv() completes: the notify_shutdown sender was dropped
\* (shutdown.rs:25).
ShutdownReady == ~notify_alive

\* Handler::run, shutdown.recv() completes in the select: is_shutdown is
\* set and the handler returns Ok (server.rs:106-108, shutdown.rs:20-28).
HandlerShutdown(h) ==
    /\ h_state[h] = "running"
    /\ h_pc[h] = "select"
    /\ ShutdownReady
    /\ is_shutdown' = [is_shutdown EXCEPT ![h] = TRUE]
    /\ Returns(h, "ok")
    /\ UNCHANGED <<run_pc, listener_pc, permits, notify_alive, listener_tx,
                   h_tx, run_res>>
    /\ UNCHANGED <<dbVars, psVars, codecVars, connVars>>

\* Handler::run, Command::from_frame and cmd.apply (server.rs:116-119):
\* "reply" is a command applied and answered, "subscribe" a SUBSCRIBE whose
\* channels are subscribed and confirmed, entering the loop of
\* Subscribe::apply, "err" a command-shape or write error.
HandlerApply(h, kind) ==
    /\ h_state[h] = "running"
    /\ h_pc[h] = "apply"
    /\ CASE kind = "reply" ->
              /\ h_pc' = [h_pc EXCEPT ![h] = "loop"]
              /\ UNCHANGED <<h_state, h_result>>
         [] kind = "subscribe" ->
              /\ h_pc' = [h_pc EXCEPT ![h] = "sub_select"]
              /\ UNCHANGED <<h_state, h_result>>
         [] kind = "err" -> Returns(h, "err")
    /\ UNCHANGED <<run_pc, listener_pc, permits, notify_alive, listener_tx,
                   h_tx, is_shutdown, run_res>>
    /\ UNCHANGED <<dbVars, psVars, codecVars, connVars>>

\* Handler::run applies a SET (server.rs:116-119, cmd/set.rs:53-60): Db::set
\* through the handler's clone of Db, then the reply is written and the loop
\* goes round.
HandlerSet(h, k, v, expire) ==
    /\ h_state[h] = "running"
    /\ h_pc[h] = "apply"
    /\ \A d \in expire : now + d <= MaxTime
    /\ DbSet(k, v, expire)
    /\ h_pc' = [h_pc EXCEPT ![h] = "loop"]
    /\ UNCHANGED <<run_pc, listener_pc, permits, notify_alive, listener_tx,
                   h_state, h_result, h_tx, is_shutdown, run_res>>
    /\ UNCHANGED <<db_shutdown, now, sweeper_pc, sweeper_when, reply>>
    /\ UNCHANGED <<psVars, codecVars, connVars>>

\* Subscribe::apply, subscriptions.next() yields a message
\* (cmd/subscribe.rs:44-48).
SubMessage(h) ==
    /\ h_state[h] = "running"
    /\ h_pc[h] = "sub_select"
    /\ h_pc' = [h_pc EXCEPT ![h] = "sub_write"]
    /\ UNCHANGED <<run_pc, listener_pc, permits, notify_alive, listener_tx,
                   h_state, h_result, h_tx, is_shutdown, run_res>>
    /\ UNCHANGED <<dbVars, psVars, codecVars, connVars>>

\* Subscribe::apply, the message frame is written, or the write fails
\* (cmd/subscribe.rs:50).
SubWritten(h, res) ==
    /\ h_state[h] = "running"
    /\ h_pc[h] = "sub_write"
    /\ IF res = "ok"
          THEN /\ h_pc' = [h_pc EXCEPT ![h] = "sub_select"]
               /\ UNCHANGED <<h_state, h_result>>
          ELSE Returns(h, "err")
    /\ UNCHANGED <<run_pc, listener_pc, permits, notify_alive, listener_tx,
                   h_tx, is_shutdown, run_res>>
    /\ UNCHANGED <<dbVars, psVars, codecVars, connVars>>

\* Subscribe::apply, read_frame returns a frame (cmd/subscribe.rs:52-54).
SubRead(h) ==
    /\ h_state[h] = "running"
    /\ h_pc[h] = "sub_select"
    /\ h_pc' = [h_pc EXCEPT ![h] = "sub_apply"]
    /\ UNCHANGED <<run_pc, listener_pc, permits, notify_alive, listener_tx,
                   h_state, h_result, h_tx, is_shutdown, run_res>>
    /\ UNCHANGED <<dbVars, psVars, codecVars, connVars>>

\* Subscribe::apply, handle_command returns (cmd/subscribe.rs:59).
SubApply(h, res) ==
    /\ h_state[h] = "running"
    /\ h_pc[h] = "sub_apply"
    /\ IF res = "ok"
          THEN /\ h_pc' = [h_pc EXCEPT ![h] = "sub_select"]
               /\ UNCHANGED <<h_state, h_result>>
          ELSE Returns(h, "err")
    /\ UNCHANGED <<run_pc, listener_pc, permits, notify_alive, listener_tx,
                   h_tx, is_shutdown, run_res>>
    /\ UNCHANGED <<dbVars, psVars, codecVars, connVars>>

\* Subscribe::apply, read_frame returns None: apply returns Ok to the loop
\* of Handler::run; or an error (cmd/subscribe.rs:53-57).
SubClose(h, res) ==
    /\ h_state[h] = "running"
    /\ h_pc[h] = "sub_select"
    /\ IF res = "ok"
          THEN /\ h_pc' = [h_pc EXCEPT ![h] = "loop"]
               /\ UNCHANGED <<h_state, h_result>>
          ELSE Returns(h, "err")
    /\ UNCHANGED <<run_pc, listener_pc, permits, notify_alive, listener_tx,
                   h_tx, is_shutdown, run_res>>
    /\ UNCHANGED <<dbVars, psVars, codecVars, connVars>>

\* Subscribe::apply, shutdown.recv() completes in the select: is_shutdown is
\* set and apply returns Ok to the loop of Handler::run
\* (cmd/subscribe.rs:61, shutdown.rs:20-28).
SubShutdown(h) ==
    /\ h_state[h] = "running"
    /\ h_pc[h] = "sub_select"
    /\ ShutdownReady
    /\ is_shutdown' = [is_shutdown EXCEPT ![h] = TRUE]
    /\ h_pc' = [h_pc EXCEPT ![h] = "loop"]
    /\ UNCHANGED <<run_pc, listener_pc, permits, notify_alive, listener_tx,
                   h_state, h_result, h_tx, run_res>>
    /\ UNCHANGED <<dbVars, psVars, codecVars, connVars>>

\* A task that gives its permit back only when Handler::run returned Ok.
ReleasesPermitOnOk(res) == res = "ok"

\* The spawned task reaches drop(permit) whatever handler.run() returned:
\* the error is only logged (server.rs:42-46).
ReleasesPermit(res) == TRUE

\* The spawned task, drop(permit) after handler.run() (server.rs:41-46).
HandlerRelease(h) ==
    /\ h_state[h] = "returned"
    /\ h_state' = [h_state EXCEPT ![h] = "released"]
    /\ permits' = IF ReleasesPermit(h_result[h]) THEN permits + 1 ELSE permits
    /\ UNCHANGED <<run_pc, listener_pc, notify_alive, listener_tx, h_result,
                   h_tx, h_pc, is_shutdown, run_res>>
    /\ UNCHANGED <<dbVars, psVars, codecVars, connVars>>

\* The spawned task ends: the Handler it owns is dropped, and with it the
\* clone of shutdown_complete_tx (server.rs:41-47, 93-99).
HandlerDropped(h) ==
    /\ h_state[h] = "released"
    /\ h_state' = [h_state EXCEPT ![h] = "gone"]
    /\ h_tx' = [h_tx EXCEPT ![h] = FALSE]
    /\ UNCHANGED <<run_pc, listener_pc, permits, notify_alive, listener_tx,
                   h_result, h_pc, is_shutdown, run_res>>
    /\ UNCHANGED <<dbVars, psVars, codecVars, connVars>>

\* ---------------------------------------------------------------- codec
\* Bytes are one-character strings; a buffer is a sequence of bytes.
CR == "\r"
LF == "\n"
CRLF == <<CR, LF>>
Digit == <<"0", "1", "2", "3", "4", "5", "6", "7", "8", "9">>
IsDigit(b) == \E i \in 1..10 : Digit[i] = b
DigitValue(b) == (CHOOSE i \in 1..10 : Digit[i] = b) - 1

\* buf.advance(n) on a slice.
Advance(buf, n) == SubSeq(buf, n + 1, Len(buf))

\* Frame::Error, Frame::Integer and Frame::Array of the codec (frame.rs:6-13);
\* the payload of Simple, Error and Bulk is a sequence of bytes.
ErrorFrame(s) == [type |-> "Error", val |-> s]
IntegerFrame(n) == [type |-> "Integer", val |-> n]
Array(fs) == [type |-> "Array", val |-> fs]

\* i64::to_string.
RECURSIVE ToDigits(_)
ToDigits(n) ==
    IF n < 10 THEN <<Digit[n + 1]>>
              ELSE ToDigits(n \div 10) \o <<Digit[(n % 10) + 1]>>

to_string(n) == IF n < 0 THEN <<"-">> \o ToDigits(0 - n) ELSE ToDigits(n)

\* What a write leaves in the stream: the bytes, or a panic.
Written(bs) == [kind |-> "ok", bytes |-> bs]
WritePanic == [kind |-> "panic", bytes |-> <<>>]

\* Connection::write_decimal (connection.rs:99-103).
write_decimal(n) == to_string(n) \o CRLF

\* Connection::write_value (connection.rs:67-96); Frame::Array is
\* unreachable!().
write_value(f) ==
    CASE f.type = "Simple" -> Written(<<"+">> \o f.val \o CRLF)
      [] f.type = "Error" -> Written(<<"-">> \o f.val \o CRLF)
      [] f.type = "Integer" -> Written(<<":">> \o write_decimal(f.val))
      [] f.type = "Bulk" ->
           Written(<<"$">> \o write_decimal(Len(f.val)) \o f.val \o CRLF)
      [] f.type = "Null" -> Written(<<"$", "-", "1">> \o CRLF)
      [] f.type = "Array" -> WritePanic

\* The loop of write_frame over the elements (connection.rs:54-56).
RECURSIVE write_values(_)
write_values(fs) ==
    IF fs = <<>> THEN Written(<<>>)
    ELSE LET w == write_value(Head(fs))
             ws == write_values(Tail(fs))
         IN  IF w.kind = "panic" \/ ws.kind = "panic"
                THEN WritePanic
                ELSE Written(w.bytes \o ws.bytes)

\* Connection::write_frame (connection.rs:49-64): nothing reaches the peer
\* before the final flush.
write_frame(f) ==
    IF f.type = "Array"
       THEN LET ws == write_values(f.val)
            IN  IF ws.kind = "panic"
                   THEN WritePanic
                   ELSE Written(<<"*">> \o write_decimal(Len(f.val)) \o ws.bytes)
       ELSE write_value(f)

\* get_line (frame.rs:130-137): `buf.len() - 1` on an empty slice overflows,
\* which panics in a debug build; in a release build it wraps and buf[0]
\* panics.
get_line(buf) ==
    IF Len(buf) = 0
       THEN [kind |-> "panic", advance |-> 0, line |-> <<>>]
       ELSE LET hits == {i \in 1..(Len(buf) - 1) :
                            buf[i] = CR /\ buf[i + 1] = LF}
            IN  IF hits = {}
                   THEN [kind |-> "none", advance |-> 0, line |-> <<>>]
                   ELSE [kind |-> "some", advance |-> MinOf(hits) + 1,
                         line |-> SubSeq(buf, 1, MinOf(hits) - 1)]

\* The digits a line starts with, and their value.
RECURSIVE CountDigits(_)
CountDigits(s) ==
    IF s = <<>> \/ ~IsDigit(Head(s)) THEN 0 ELSE 1 + CountDigits(Tail(s))

RECURSIVE FromRadix10(_, _)
FromRadix10(s, acc) ==
    IF s = <<>> \/ ~IsDigit(Head(s))
       THEN acc
       ELSE FromRadix10(Tail(s), acc * 10 + DigitValue(Head(s)))

\* atoi::atoi: an optional sign and the leading digits; None when it
\* consumes nothing.
atoi(line) ==
    LET signed == line # <<>> /\ Head(line) \in {"+", "-"}
        body == IF signed THEN Tail(line) ELSE line
        used == (IF signed THEN 1 ELSE 0) + CountDigits(body)
        n == FromRadix10(body, 0)
    IN  IF used = 0 THEN {}
        ELSE {IF signed /\ Head(line) = "-" THEN 0 - n ELSE n}

\* get_decimal (frame.rs:120-125).
get_decimal(buf) ==
    LET l == get_line(buf)
    IN  IF l.kind # "some" THEN [kind |-> l.kind, advance |-> 0, n |-> 0]
        ELSE IF atoi(l.line) = {} THEN [kind |-> "none", advance |-> 0, n |-> 0]
        ELSE [kind |-> "some", advance |-> l.advance,
              n |-> CHOOSE n \in atoi(l.line) : TRUE]

\* Result<(usize, Frame), Error> of Frame::parse, and a panic.
Ok(n, f) == [kind |-> "ok", advance |-> n, frame |-> f]
Incomplete == [kind |-> "incomplete", advance |-> 0, frame |-> Null]
Other == [kind |-> "error", advance |-> 0, frame |-> Null]
Panic == [kind |-> "panic", advance |-> 0, frame |-> Null]

\* The `_ => unimplemented!()` arm of Frame::parse (frame.rs:81).
UnknownTag == Panic

RECURSIVE parse(_)
RECURSIVE parse_elements(_, _)
\* The element loop of Frame::parse (frame.rs:70-78); `?` hands on an error,
\* Incomplete included.
parse_elements(buf, n) ==
    IF n = 0 THEN Ok(0, Array(<<>>))
    ELSE LET r == parse(buf)
         IN  IF r.kind # "ok" THEN r
             ELSE LET rest == parse_elements(Advance(buf, r.advance), n - 1)
                  IN  IF rest.kind # "ok" THEN rest
                      ELSE Ok(r.advance + rest.advance,
                              Array(<<r.frame>> \o rest.frame.val))

\* Frame::parse (frame.rs:18-85); get_u8 panics on an empty buffer.
parse(b) ==
    IF Len(b) = 0 THEN Panic
    ELSE
    LET tag == Head(b)
        buf == Tail(b)
    IN  CASE tag \in {"+", "-"} ->
               LET l == get_line(buf)
               IN  IF l.kind = "panic" THEN Panic
                   ELSE IF l.kind = "none" THEN Incomplete
                   ELSE Ok(1 + l.advance,
                           IF tag = "+" THEN Simple(l.line)
                                        ELSE ErrorFrame(l.line))
          [] tag = ":" ->
               LET d == get_decimal(buf)
               IN  IF d.kind = "panic" THEN Panic
                   ELSE IF d.kind = "none" THEN Incomplete
                   ELSE Ok(1 + d.advance, IntegerFrame(d.n))
          [] tag = "$" ->
               LET d == get_decimal(buf)
                   data_buf == Advance(buf, d.advance)
               IN  IF d.kind = "panic" THEN Panic
                   ELSE IF d.kind = "none" THEN Incomplete
                   ELSE IF d.n = -1 THEN Ok(5, Null)
                   ELSE IF d.n < 0 THEN Other
                   ELSE IF /\ Len(data_buf) >= d.n + 2
                           /\ data_buf[d.n + 1] = CR
                           /\ data_buf[d.n + 2] = LF
                           THEN Ok(1 + d.advance + d.n + 2,
                                   Bulk(SubSeq(data_buf, 1, d.n)))
                           ELSE Incomplete
          [] tag = "*" ->
               LET d == get_decimal(buf)
               IN  IF d.kind = "panic" THEN Panic
                   ELSE IF d.kind = "none" THEN Incomplete
                   ELSE IF d.n < 0 THEN Other
                   ELSE LET r == parse_elements(Advance(buf, d.advance), d.n)
                        IN  IF r.kind # "ok" THEN r
                            ELSE Ok(1 + d.advance + r.advance, r.frame)
          [] OTHER -> UnknownTag

\* The frames the peer writes.
Frames ==
    {Simple(<<>>), Simple(<<"a">>), ErrorFrame(<<"a">>),
     IntegerFrame(0), IntegerFrame(12), IntegerFrame(-1),
     Bulk(<<>>), Bulk(<<"a">>), Null,
     Array(<<>>), Array(<<Bulk(<<"a">>)>>),
     Array(<<Bulk(<<"a">>), IntegerFrame(1)>>),
     Array(<<Null>>), Array(<<Array(<<>>)>>)}

\* Other bytes the peer writes: frames cut short, and bytes that are no frame.
RawInputs ==
    {<<"+">>, <<"+", "a">>, <<"$", "1", CR, LF, "a">>, <<"*", "1", CR, LF>>,
     <<"?", CR, LF>>, <<":", "a", CR, LF>>, <<"$", "a", CR, LF>>,
     <<"$", "1", CR, LF, "a", "b", CR, LF>>,
     <<"*", "-", "1", CR, LF>>, <<"$", "-", "2", CR, LF>>}

\* An entry of rf_out.
Returned(kind, f) == [kind |-> kind, frame |-> f]

\* The peer's Connection::write_frame(f) (connection.rs:49-64); a panic ends
\* the writing task, which drops the connection.
PeerWrites(f) ==
    /\ ~peer_closed
    /\ nwrites < MaxWrites
    /\ nwrites' = nwrites + 1
    /\ last_write' = {[frame |-> f, res |-> write_frame(f)]}
    /\ IF write_frame(f).kind = "ok"
          THEN /\ wire' = wire \o write_frame(f).bytes
               /\ peer_frames' = Append(peer_frames, f)
               /\ UNCHANGED peer_closed
          ELSE /\ peer_closed' = TRUE
               /\ UNCHANGED <<wire, peer_frames>>
    /\ UNCHANGED <<buffer, rf_pc, rf_out, bytewise, raw_sent, last_parse>>
    /\ UNCHANGED rf_abandoned
    /\ UNCHANGED <<dbVars, psVars, srvVars, connVars>>

\* The peer writes bytes of its own making.
PeerSendsRaw(bs) ==
    /\ ~peer_closed
    /\ nwrites < MaxWrites
    /\ nwrites' = nwrites + 1
    /\ wire' = wire \o bs
    /\ raw_sent' = TRUE
    /\ UNCHANGED <<peer_closed, buffer, rf_pc, rf_out, bytewise, peer_frames,
                   last_write, last_parse>>
    /\ UNCHANGED rf_abandoned
    /\ UNCHANGED <<dbVars, psVars, srvVars, connVars>>

\* The peer closes its end.
PeerCloses ==
    /\ ~peer_closed
    /\ peer_closed' = TRUE
    /\ UNCHANGED <<wire, nwrites, buffer, rf_pc, rf_out, bytewise, peer_frames,
                   raw_sent, last_write, last_parse>>
    /\ UNCHANGED rf_abandoned
    /\ UNCHANGED <<dbVars, psVars, srvVars, connVars>>

\* Connection::read_frame, the top of its loop (connection.rs:26-37): parse
\* a non-empty buffer. A frame is returned and the caller calls again; a
\* protocol error is returned; a panic ends the task.
ReadFrameParse ==
    /\ rf_pc = "parse"
    /\ IF buffer = <<>>
          THEN /\ rf_pc' = "read"
               /\ UNCHANGED <<buffer, rf_out, last_parse>>
          ELSE LET r == parse(buffer)
               IN  /\ last_parse' = {[buf |-> buffer, res |-> r]}
                   /\ CASE r.kind = "ok" ->
                             /\ buffer' = Advance(buffer, r.advance)
                             /\ rf_out' = Append(rf_out, Returned("frame", r.frame))
                             /\ rf_pc' = "parse"
                        [] r.kind = "incomplete" ->
                             /\ rf_pc' = "read"
                             /\ UNCHANGED <<buffer, rf_out>>
                        [] r.kind = "error" ->
                             /\ rf_out' = Append(rf_out, Returned("err", Null))
                             /\ rf_pc' = "ended"
                             /\ UNCHANGED buffer
                        [] r.kind = "panic" ->
                             /\ rf_out' = Append(rf_out, Returned("panic", Null))
                             /\ rf_pc' = "ended"
                             /\ UNCHANGED buffer
    /\ UNCHANGED <<wire, peer_closed, nwrites, bytewise, peer_frames, raw_sent,
                   last_write>>
    /\ UNCHANGED rf_abandoned
    /\ UNCHANGED <<dbVars, psVars, srvVars, connVars>>

\* Connection::read_frame, read_buf returns n > 0 bytes (connection.rs:39).
SocketRead(n) ==
    /\ rf_pc = "read"
    /\ n \in 1..Len(wire)
    /\ buffer' = buffer \o SubSeq(wire, 1, n)
    /\ wire' = Advance(wire, n)
    /\ bytewise' = (bytewise /\ n = 1)
    /\ rf_pc' = "parse"
    /\ UNCHANGED <<peer_closed, nwrites, rf_out, peer_frames, raw_sent,
                   last_write, last_parse>>
    /\ UNCHANGED rf_abandoned
    /\ UNCHANGED <<dbVars, psVars, srvVars, connVars>>

\* Connection::read_frame, read_buf returns 0: None on an empty buffer,
\* "connection reset by peer" otherwise (connection.rs:39-45).
SocketEof ==
    /\ rf_pc = "read"
    /\ wire = <<>>
    /\ peer_closed
    /\ rf_out' = Append(rf_out, IF buffer = <<>> THEN Returned("none", Null)
                                                 ELSE Returned("err", Null))
    /\ rf_pc' = "ended"
    /\ UNCHANGED <<wire, peer_closed, nwrites, buffer, bytewise, peer_frames,
                   raw_sent, last_write, last_parse>>
    /\ UNCHANGED rf_abandoned
    /\ UNCHANGED <<dbVars, psVars, srvVars, connVars>>

\* Connection::read_frame, read_buf fails: `?` returns the io error
\* (connection.rs:39).
SocketFails ==
    /\ rf_pc = "read"
    /\ rf_out' = Append(rf_out, Returned("io_err", Null))
    /\ rf_pc' = "ended"
    /\ UNCHANGED <<wire, peer_closed, nwrites, buffer, bytewise, peer_frames,
                   raw_sent, last_write, last_parse>>
    /\ UNCHANGED rf_abandoned
    /\ UNCHANGED <<dbVars, psVars, srvVars, connVars>>

\* Another branch of the select wins while read_frame waits in read_buf
\* (server.rs:104-109, cmd/subscribe.rs:43-62): the read_frame future is
\* dropped, Connection::buffer is a field of the connection and keeps its
\* bytes, and the next turn of the loop calls read_frame again.
ReadFrameAbandoned ==
    /\ rf_pc = "read"
    /\ rf_pc' = "parse"
    /\ rf_abandoned' = TRUE
    /\ UNCHANGED <<wire, peer_closed, nwrites, buffer, rf_out, bytewise,
                   peer_frames, raw_sent, last_write, last_parse>>
    /\ UNCHANGED <<dbVars, psVars, srvVars, connVars>>

\* ---------------------------------------------------------------- commands
\* A command frame is an Array of Bulk strings, written here as the sequence
\* of the strings. The frames the client sends.
CommandFrames ==
    {<<"get", "k1">>, <<"set", "k1", "v1">>, <<"publish", "ch1", "m">>,
     <<"ping">>, <<"frobb">>, <<"GET", "k1">>, <<"subscribe", "ch1">>,
     <<"unsubscribe">>, <<"get">>, <<"set", "k1">>,
     <<"set", "k1", "v1", "NX">>, <<"subscribe">>,
     <<"subscribe", "ch1", "ch2">>, <<"unsubscribe", "ch1">>}

\* Command (cmd.rs:26-34), and the Err of Command::from_frame.
Cmd(tag, name, args) == [tag |-> tag, name |-> name, args |-> args]
CmdErr == Cmd("Err", "", <<>>)

\* A from_frame that matches the command name in any case.
CommandNameAnyCase(name) ==
    CASE name \in {"get", "GET"} -> "get"
      [] name \in {"set", "SET"} -> "set"
      [] name \in {"ping", "PING"} -> "ping"
      [] OTHER -> name

\* The name from_frame matches on: name.as_str() (cmd.rs:40).
CommandName(name) == name

\* Command::from_frame (cmd.rs:37-55) with the from_frame of each command:
\* elements past those a command takes are ignored; SET takes an option.
from_frame(f) ==
    IF f = <<>> THEN CmdErr
    ELSE LET name == CommandName(Head(f))
             args == Tail(f)
         IN  CASE name = "get" ->
                    IF Len(args) >= 1 THEN Cmd("Get", name, args) ELSE CmdErr
               [] name = "publish" ->
                    IF Len(args) >= 2 THEN Cmd("Publish", name, args) ELSE CmdErr
               [] name = "set" ->
                    IF Len(args) = 2 THEN Cmd("Set", name, args)
                    ELSE IF Len(args) >= 4 /\ args[3] \in {"EX", "PX"}
                            THEN Cmd("Set", name, args)
                            ELSE CmdErr
               [] name = "subscribe" ->
                    IF Len(args) >= 1 THEN Cmd("Subscribe", name, args)
                                      ELSE CmdErr
               [] name = "unsubscribe" -> Cmd("Unsubscribe", name, args)
               [] name = "ping" -> Cmd("Ping", name, args)
               [] OTHER -> Cmd("Unknown", Head(f), Tail(f))

\* Command::get_name (cmd.rs:78-90).
get_name(cmd) ==
    CASE cmd.tag = "Get" -> "get"
      [] cmd.tag = "Publish" -> "pub"
      [] cmd.tag = "Set" -> "set"
      [] cmd.tag = "Subscribe" -> "subscribe"
      [] cmd.tag = "Unsubscribe" -> "unsubscribe"
      [] cmd.tag = "Ping" -> "ping"
      [] cmd.tag = "Unknown" -> cmd.name

\* Unknown::apply: format!("ERR unknown command '{}'", name)
\* (cmd/unknown.rs:14-20).
UnknownReply(name) == ErrorFrame(<<"ERR unknown command '", name, "'">>)

\* An entry of conn_out: the frame written, the number of the command it
\* answers, and how many frames were buffered when that command was taken.
Out(item, frame) ==
    [seq |-> item.seq, buffered |-> Len(conn_in), frame |-> frame]

\* The entry of a frame no command asked for.
Pushed(frame) == [seq |-> 0, buffered |-> 0, frame |-> frame]

\* A read_frame that returns the frame buffered last.
NextFrameLast(in) == Len(in)

\* The frame read_frame returns: the one at the front of the buffer
\* (connection.rs:27-32).
NextFrame(in) == 1

\* The buffer after that frame has been consumed.
Consumed(in) ==
    [i \in 1..(Len(in) - 1) |-> IF i < NextFrame(in) THEN in[i] ELSE in[i + 1]]

\* The loop over the channels of a SUBSCRIBE (cmd/subscribe.rs:38-40,
\* 111-113): subscribe_channel for each, on StreamMap m.
RECURSIVE SubscribeAll(_, _, _)
SubscribeAll(m, chans, item) ==
    IF chans = <<>> THEN [subs |-> m, out |-> <<>>]
    ELSE LET m1 == SmInsert(m, Head(chans), Len(sent[Head(chans)]))
             rest == SubscribeAll(m1, Tail(chans), item)
         IN  [subs |-> rest.subs,
              out |-> <<Out(item, SubscribeFrame(Head(chans), Len(m1)))>>
                         \o rest.out]

\* The loop over the channels of an UNSUBSCRIBE (cmd/subscribe.rs:120-129).
RECURSIVE UnsubscribeAll(_, _, _)
UnsubscribeAll(m, chans, item) ==
    IF chans = <<>> THEN [subs |-> m, out |-> <<>>]
    ELSE LET m1 == SmRemove(m, Head(chans))
             rest == UnsubscribeAll(m1, Tail(chans), item)
         IN  [subs |-> rest.subs,
              out |-> <<Out(item, UnsubscribeFrame(Head(chans), Len(m1)))>>
                         \o rest.out]

\* An UNSUBSCRIBE that takes its list as given, empty or not.
UnsubscribeListAsGiven(chans, m) == chans

\* The channels an UNSUBSCRIBE processes: an empty list stands for every key
\* of the StreamMap (cmd/subscribe.rs:116-118).
UnsubscribeList(chans, m) == IF chans = <<>> THEN SmKeyList(m) ELSE chans

\* The receivers of a channel, the followed connection's included.
ConnRxCount(ch) ==
    RxCount(ch) + (IF ch \in SmKeys(conn_subs) THEN 1 ELSE 0)

\* The client writes a command frame; it waits for no reply before the next.
ClientSends(f) ==
    /\ conn_pc # "closed"
    /\ Len(conn_log) < MaxCmds
    /\ conn_log' = Append(conn_log, f)
    /\ conn_in' = Append(conn_in, [seq |-> Len(conn_log) + 1, frame |-> f])
    /\ UNCHANGED <<conn_pc, conn_subs, conn_out>>
    /\ UNCHANGED <<dbVars, psVars, srvVars, codecVars>>

\* Handler::run, one turn of the loop (server.rs:104-119): read_frame
\* returns a buffered frame, Command::from_frame decodes it and
\* Command::apply (cmd.rs:57-76) applies it and writes the reply. An error
\* ends the handler; SUBSCRIBE enters the loop of Subscribe::apply. The
\* client sends no SET with an option, and the message of its own PUBLISH is
\* written 0 to tell it from the messages of other connections.
ConnApply ==
    /\ conn_pc = "normal"
    /\ conn_in # <<>>
    /\ LET item == conn_in[NextFrame(conn_in)]
           cmd == from_frame(item.frame)
           count == IF cmd.args[1] \in pub_sub
                       THEN ConnRxCount(cmd.args[1]) ELSE 0
           sub == SubscribeAll(<<>>, cmd.args, item)
       IN  /\ conn_in' = Consumed(conn_in)
           /\ CASE cmd.tag = "Get" ->
                     /\ conn_out' = Append(conn_out, Out(item,
                           IF DbGet(cmd.args[1]) = {} THEN Null
                           ELSE Bulk(CHOOSE v \in DbGet(cmd.args[1]) : TRUE)))
                     /\ UNCHANGED <<conn_pc, conn_subs, dbVars, psVars>>
                [] cmd.tag = "Set" ->
                     /\ DbSet(cmd.args[1], cmd.args[2], {})
                     /\ conn_out' = Append(conn_out, Out(item, Simple("OK")))
                     /\ UNCHANGED <<db_shutdown, now, sweeper_pc, sweeper_when,
                                    reply>>
                     /\ UNCHANGED <<conn_pc, conn_subs, psVars>>
                [] cmd.tag = "Publish" ->
                     /\ sent' = IF count > 0
                                THEN [sent EXCEPT ![cmd.args[1]] = Append(@, 0)]
                                ELSE sent
                     /\ conn_out' = Append(conn_out, Out(item, Integer(count)))
                     /\ UNCHANGED <<pub_sub, npub, ncmds, ps_pc, subscriptions,
                                    pending_rx, todo, written, hist>>
                     /\ UNCHANGED <<conn_pc, conn_subs, dbVars>>
                [] cmd.tag = "Ping" ->
                     /\ conn_out' = Append(conn_out, Out(item,
                           IF cmd.args = <<>> THEN Simple("PONG")
                                              ELSE Bulk(cmd.args[1])))
                     /\ UNCHANGED <<conn_pc, conn_subs, dbVars, psVars>>
                [] cmd.tag = "Unknown" ->
                     /\ conn_out' = Append(conn_out,
                                           Out(item, UnknownReply(cmd.name)))
                     /\ UNCHANGED <<conn_pc, conn_subs, dbVars, psVars>>
                [] cmd.tag = "Subscribe" ->
                     /\ pub_sub' = pub_sub \cup {cmd.args[i] : i \in DOMAIN cmd.args}
                     /\ conn_subs' = sub.subs
                     /\ conn_out' = conn_out \o sub.out
                     /\ conn_pc' = "subscribe"
                     /\ UNCHANGED <<sent, npub, ncmds, ps_pc, subscriptions,
                                    pending_rx, todo, written, hist>>
                     /\ UNCHANGED dbVars
                [] cmd.tag \in {"Unsubscribe", "Err"} ->
                     /\ conn_pc' = "closed"
                     /\ UNCHANGED <<conn_subs, conn_out, dbVars, psVars>>
    /\ UNCHANGED conn_log
    /\ UNCHANGED <<srvVars, codecVars>>

\* A loop that ends, back to Handler::run, once no channel is subscribed.
LoopContinuesWhileSubscribed(m) == m # <<>>

\* The loop of Subscribe::apply has no exit on an empty StreamMap: it runs
\* while !shutdown.is_shutdown() (cmd/subscribe.rs:42).
LoopContinues(m) == TRUE

\* Subscribe::apply, the read_frame arm of its loop and handle_command
\* (cmd/subscribe.rs:52-59, 99-137): SUBSCRIBE and UNSUBSCRIBE are honoured,
\* any other command is answered by Unknown::apply under its get_name.
ConnSubApply ==
    /\ conn_pc = "subscribe"
    /\ conn_in # <<>>
    /\ LET item == conn_in[NextFrame(conn_in)]
           cmd == from_frame(item.frame)
           sub == SubscribeAll(conn_subs, cmd.args, item)
           unsub == UnsubscribeAll(conn_subs,
                                   UnsubscribeList(cmd.args, conn_subs), item)
       IN  /\ conn_in' = Consumed(conn_in)
           /\ CASE cmd.tag = "Subscribe" ->
                     /\ pub_sub' = pub_sub \cup {cmd.args[i] : i \in DOMAIN cmd.args}
                     /\ conn_subs' = sub.subs
                     /\ conn_out' = conn_out \o sub.out
                     /\ UNCHANGED <<sent, npub, ncmds, ps_pc, subscriptions,
                                    pending_rx, todo, written, hist>>
                     /\ UNCHANGED conn_pc
                [] cmd.tag = "Unsubscribe" ->
                     /\ conn_subs' = unsub.subs
                     /\ conn_out' = conn_out \o unsub.out
                     /\ conn_pc' = IF LoopContinues(unsub.subs)
                                   THEN "subscribe" ELSE "normal"
                     /\ UNCHANGED psVars
                [] cmd.tag = "Err" ->
                     /\ conn_pc' = "closed"
                     /\ conn_subs' = <<>>
                     /\ UNCHANGED <<conn_out, psVars>>
                [] OTHER ->
                     /\ conn_out' = Append(conn_out,
                                           Out(item, UnknownReply(get_name(cmd))))
                     /\ UNCHANGED <<conn_pc, conn_subs, psVars>>
    /\ UNCHANGED conn_log
    /\ UNCHANGED <<dbVars, srvVars, codecVars>>

\* Another connection's PUBLISH: Db::publish (db.rs:118-127).
OtherPublishes(ch) ==
    /\ npub < MaxPublish
    /\ npub' = npub + 1
    /\ sent' = IF ch \in pub_sub /\ ConnRxCount(ch) > 0
               THEN [sent EXCEPT ![ch] = Append(@, npub + 1)]
               ELSE sent
    /\ UNCHANGED <<pub_sub, ncmds, ps_pc, subscriptions, pending_rx, todo,
                   written, hist>>
    /\ UNCHANGED <<dbVars, srvVars, codecVars, connVars>>

\* Subscribe::apply, the subscriptions.next() arm (cmd/subscribe.rs:44-51):
\* a stream yields a value and the message frame is written.
ConnDeliver(ch) ==
    /\ conn_pc = "subscribe"
    /\ ch \in SmKeys(conn_subs)
    /\ LET next == SmNext(conn_subs, ch)
       IN  /\ next < Len(sent[ch])
           /\ next + RingCapacity >= Len(sent[ch])
           /\ conn_subs' = SmSetNext(conn_subs, ch, next + 1)
           /\ conn_out' = Append(conn_out,
                                 Pushed(MessageFrame(ch, sent[ch][next + 1])))
    /\ UNCHANGED <<conn_in, conn_log, conn_pc>>
    /\ UNCHANGED <<dbVars, psVars, srvVars, codecVars>>

\* The stream's receiver lagged: it skips to the oldest retained value
\* (cmd/subscribe.rs:79).
ConnLagged(ch) ==
    /\ conn_pc = "subscribe"
    /\ ch \in SmKeys(conn_subs)
    /\ SmNext(conn_subs, ch) + RingCapacity < Len(sent[ch])
    /\ conn_subs' = SmSetNext(conn_subs, ch, LaggedNext(ch))
    /\ UNCHANGED <<conn_in, conn_log, conn_pc, conn_out>>
    /\ UNCHANGED <<dbVars, psVars, srvVars, codecVars>>

\* read_frame returns None in either loop: the client closed after all it
\* sent was read (server.rs:113, cmd/subscribe.rs:56).
ConnClose ==
    /\ conn_pc # "closed"
    /\ conn_in = <<>>
    /\ conn_pc' = "closed"
    /\ conn_subs' = <<>>
    /\ UNCHANGED <<conn_in, conn_log, conn_out>>
    /\ UNCHANGED <<dbVars, psVars, srvVars, codecVars>>

\* ---------------------------------------------------------------- Spec
\* State::new (db.rs:167-175), the sweeper spawned by Db::new (db.rs:55).
Init ==
    /\ entries = <<>>
    /\ expirations = {}
    /\ db_shutdown = FALSE
    /\ now = 0
    /\ sweeper_pc = "check"
    /\ sweeper_when = {}
    /\ sweeper_notified = FALSE
    /\ reply = [c \in Conns |-> NoFrame]
    /\ last_set = [k \in Keys |-> {}]
    /\ pub_sub = {}
    /\ sent = [ch \in Channels |-> <<>>]
    /\ npub = 0
    /\ ncmds = 0
    /\ ps_pc = [c \in PsConns |-> "normal"]
    /\ subscriptions = [c \in PsConns |-> <<>>]
    /\ pending_rx = [c \in PsConns |-> {}]
    /\ todo = [c \in PsConns |-> <<>>]
    /\ written = [c \in PsConns |-> <<>>]
    /\ hist = [c \in PsConns |-> <<>>]
    /\ run_pc = "select"
    /\ listener_pc = "acquire"
    /\ permits = MAX_CONNECTIONS
    /\ notify_alive = TRUE
    /\ listener_tx = TRUE
    /\ h_state = [h \in Handlers |-> "none"]
    /\ h_result = [h \in Handlers |-> "none"]
    /\ h_tx = [h \in Handlers |-> FALSE]
    /\ h_pc = [h \in Handlers |-> "none"]
    /\ is_shutdown = [h \in Handlers |-> FALSE]
    /\ run_res = "none"
    /\ wire = <<>>
    /\ peer_closed = FALSE
    /\ nwrites = 0
    /\ buffer = <<>>
    /\ rf_pc = "parse"
    /\ rf_out = <<>>
    /\ bytewise = TRUE
    /\ peer_frames = <<>>
    /\ raw_sent = FALSE
    /\ last_write = {}
    /\ last_parse = {}
    /\ rf_abandoned = FALSE
    /\ conn_in = <<>>
    /\ conn_log = <<>>
    /\ conn_pc = "normal"
    /\ conn_subs = <<>>
    /\ conn_out = <<>>

Next ==
    \/ \E c \in Conns, k \in Keys : Get(c, k)
    \/ \E c \in Conns, k \in Keys, v \in Values, e \in Expires :
          Set(c, k, v, e)
    \/ SweeperCheck
    \/ SweeperSweep
    \/ SweeperArm
    \/ SweeperWake
    \/ Tick

Spec == Init /\ [][Next]_vars

PubSubNext ==
    \/ \E c \in Publishers, ch \in Channels : Publish(c, ch)
    \/ \E c \in Subscribers, chans \in ChannelLists : Subscribe(c, chans)
    \/ \E c \in PsConns : SubscribeMore(c)
    \/ \E c \in PsConns : InsertStream(c)
    \/ \E c \in PsConns, chans \in ChannelLists : Unsubscribe(c, chans)
    \/ \E c \in PsConns : UnsubscribeMore(c)
    \/ \E c \in PsConns, ch \in Channels : Deliver(c, ch)
    \/ \E c \in PsConns, ch \in Channels : SkipLagged(c, ch)
    \/ \E c \in Subscribers : Close(c)

PubSubSpec == Init /\ [][PubSubNext]_vars

ServerNext ==
    \/ ListenerAcquire
    \/ \E h \in Handlers : ListenerAccept(h)
    \/ ListenerAcceptFails
    \/ ShutdownResolves
    \/ RunDropNotify
    \/ RunDropTx
    \/ RunReturn
    \/ \E h \in Handlers : HandlerLoop(h)
    \/ \E h \in Handlers : HandlerRead(h)
    \/ \E h \in Handlers, res \in {"ok", "err"} : HandlerReturn(h, res)
    \/ \E h \in Handlers : HandlerShutdown(h)
    \/ \E h \in Handlers, kind \in {"reply", "subscribe", "err"} :
          HandlerApply(h, kind)
    \/ \E h \in Handlers : SubMessage(h)
    \/ \E h \in Handlers, res \in {"ok", "err"} : SubWritten(h, res)
    \/ \E h \in Handlers : SubRead(h)
    \/ \E h \in Handlers, res \in {"ok", "err"} : SubApply(h, res)
    \/ \E h \in Handlers, res \in {"ok", "err"} : SubClose(h, res)
    \/ \E h \in Handlers : SubShutdown(h)
    \/ \E h \in Handlers : HandlerRelease(h)
    \/ \E h \in Handlers : HandlerDropped(h)

ServerSpec == Init /\ [][ServerNext]_vars

CodecNext ==
    \/ \E f \in Frames : PeerWrites(f)
    \/ \E bs \in RawInputs : PeerSendsRaw(bs)
    \/ PeerCloses
    \/ ReadFrameParse
    \/ \E n \in 1..Len(wire) : SocketRead(n)
    \/ SocketEof
    \/ SocketFails

CodecSpec == Init /\ [][CodecNext]_vars

\* read_frame as a branch of a select that other branches can win.
SelectNext ==
    \/ CodecNext
    \/ ReadFrameAbandoned

SelectSpec == Init /\ [][SelectNext]_vars

\* shutdown.recv() wins the select of either loop and the handler returns
\* Ok (server.rs:106-108, cmd/subscribe.rs:60-62); what is buffered stays
\* unread.
ConnShutdown ==
    /\ conn_pc # "closed"
    /\ conn_pc' = "closed"
    /\ conn_subs' = <<>>
    /\ UNCHANGED <<conn_in, conn_log, conn_out>>
    /\ UNCHANGED <<dbVars, psVars, srvVars, codecVars>>

ConnNext ==
    \/ \E f \in CommandFrames : ClientSends(f)
    \/ ConnApply
    \/ ConnSubApply
    \/ \E ch \in Channels : OtherPublishes(ch)
    \/ \E ch \in Channels : ConnDeliver(ch)
    \/ \E ch \in Channels : ConnLagged(ch)
    \/ ConnClose
    \/ ConnShutdown

ConnSpec == Init /\ [][ConnNext]_vars

\* The server with its keyspace: the handlers apply SET, the clock advances
\* and the sweeper task runs beside them.
LifecycleNext ==
    \/ ListenerAcquire
    \/ \E h \in LifecycleHandlers : ListenerAccept(h)
    \/ ListenerAcceptFails
    \/ ShutdownResolves
    \/ RunDropNotify
    \/ RunDropTx
    \/ RunReturn
    \/ \E h \in LifecycleHandlers : HandlerLoop(h)
    \/ \E h \in LifecycleHandlers : HandlerRead(h)
    \/ \E h \in LifecycleHandlers, res \in {"ok", "err"} : HandlerReturn(h, res)
    \/ \E h \in LifecycleHandlers : HandlerShutdown(h)
    \/ \E h \in LifecycleHandlers, kind \in {"reply", "subscribe", "err"} :
          HandlerApply(h, kind)
    \/ \E h \in LifecycleHandlers, e \in Expires : HandlerSet(h, "k1", "v1", e)
    \/ \E h \in LifecycleHandlers : SubMessage(h)
    \/ \E h \in LifecycleHandlers, res \in {"ok", "err"} : SubWritten(h, res)
    \/ \E h \in LifecycleHandlers : SubRead(h)
    \/ \E h \in LifecycleHandlers, res \in {"ok", "err"} : SubApply(h, res)
    \/ \E h \in LifecycleHandlers, res \in {"ok", "err"} : SubClose(h, res)
    \/ \E h \in LifecycleHandlers : SubShutdown(h)
    \/ \E h \in LifecycleHandlers : HandlerRelease(h)
    \/ \E h \in LifecycleHandlers : HandlerDropped(h)
    \/ SweeperCheck
    \/ SweeperSweep
    \/ SweeperArm
    \/ SweeperWake
    \/ Tick

LifecycleSpec == Init /\ [][LifecycleNext]_vars

\* The executor runs the sweeper task whenever it can take a step and the
\* clock advances; the tasks of the server are scheduled as in
\* FairServerSpec.
FairLifecycleSpec ==
    /\ LifecycleSpec
    /\ WF_vars(Tick)
    /\ WF_vars(SweeperCheck)
    /\ WF_vars(SweeperSweep)
    /\ WF_vars(SweeperArm)
    /\ WF_vars(SweeperWake)
    /\ WF_vars(RunDropNotify)
    /\ WF_vars(RunDropTx)
    /\ WF_vars(RunReturn)
    /\ \A h \in LifecycleHandlers :
          /\ WF_vars(HandlerLoop(h))
          /\ SF_vars(HandlerShutdown(h))
          /\ SF_vars(SubShutdown(h))
          /\ WF_vars(\E kind \in {"reply", "subscribe", "err"} :
                        HandlerApply(h, kind))
          /\ WF_vars(\E res \in {"ok", "err"} : SubWritten(h, res))
          /\ WF_vars(\E res \in {"ok", "err"} : SubApply(h, res))
          /\ WF_vars(HandlerRelease(h))
          /\ WF_vars(HandlerDropped(h))

\* The executor runs every task that can take a step, and a write in
\* progress completes; select! polls its branches in random order, so a
\* shutdown branch that is ready again and again is eventually taken. What
\* the peers send, and when they close, is left to them.
FairServerSpec ==
    /\ ServerSpec
    /\ WF_vars(RunDropNotify)
    /\ WF_vars(RunDropTx)
    /\ WF_vars(RunReturn)
    /\ \A h \in Handlers :
          /\ WF_vars(HandlerLoop(h))
          /\ SF_vars(HandlerShutdown(h))
          /\ SF_vars(SubShutdown(h))
          /\ WF_vars(\E kind \in {"reply", "subscribe", "err"} :
                        HandlerApply(h, kind))
          /\ WF_vars(\E res \in {"ok", "err"} : SubWritten(h, res))
          /\ WF_vars(\E res \in {"ok", "err"} : SubApply(h, res))
          /\ WF_vars(HandlerRelease(h))
          /\ WF_vars(HandlerDropped(h))

\* The accept loop is a task like the others: once a permit is free and
\* stays free, acquire_owned() completes.
FairAcceptSpec == FairServerSpec /\ WF_vars(ListenerAcquire)

\* The executor runs the sweeper task whenever it can take a step, and the
\* clock advances; connections send commands or not as they please.
FairSpec ==
    /\ Spec
    /\ WF_vars(Tick)
    /\ WF_vars(SweeperCheck)
    /\ WF_vars(SweeperSweep)
    /\ WF_vars(SweeperArm)
    /\ WF_vars(SweeperWake)

\* ---------------------------------------------------------------- claims
\* Key k holds an entry that expires at t.
ExpiresAt(k, t) == k \in DOMAIN entries /\ entries[k].expires_at = {t}

\* C1. Expiration index invariant: with the state lock free, key k has an
\* entry with expires_at = t if and only if (t, k) is in the expiration
\* index, and the index holds at most one pair per key.
ExpirationIndexInvariant ==
    /\ expirations =
          UNION {{<<t, k>> : t \in entries[k].expires_at} : k \in DOMAIN entries}
    /\ \A p \in expirations, q \in expirations : p[2] = q[2] => p = q

\* C1 witness: k2 was set with an expiry and swept away, k1 is stored with
\* an expiry that has not passed, and the index holds exactly k1's pair.
ExpirationIndexWitness ==
    /\ last_set["k2"] # {} /\ "k2" \notin DOMAIN entries
    /\ ExpiresAt("k1", MaxTime)
    /\ expirations = {<<MaxTime, "k1">>}
    /\ now < MaxTime

\* What C2 says GET k answers with, given the most recent SET on k.
RoundTripAllows(k, frame) ==
    /\ last_set[k] = {} => frame = Null
    /\ \A s \in last_set[k] :
          (s.expires_at = {} \/ \E t \in s.expires_at : now < t)
             => frame = Bulk(s.data)

\* C2. SET/GET round-trip: GET k answers Bulk v, v the value of the most
\* recent SET on k, as long as that SET's own expiry (if any) has not
\* passed; GET on a key never set answers Null.
SetGetRoundTrip ==
    [][\A c \in Conns, k \in Keys : Get(c, k) => RoundTripAllows(k, reply'[c])]_vars

\* C2 witness: c1 was answered Bulk v2 for k1 (k2 was never set), k1's most
\* recent SET carried no expiry, and the clock and the sweeper have run.
SetGetRoundTripWitness ==
    /\ reply["c1"] = Bulk("v2")
    /\ last_set["k2"] = {}
    /\ last_set["k1"] = {[data |-> "v2", expires_at |-> {}]}
    /\ now = MaxTime
    /\ sweeper_pc = "wait"

\* C3. Expiry as seen by GET: for a SET k v with expiry that is not
\* overwritten, GET k at or after the deadline answers Null and GET k
\* before the deadline answers Bulk v, however the sweeper is scheduled.
ExpiryAsSeenByGet ==
    [][\A c \in Conns, k \in Keys : Get(c, k) =>
          \A s \in last_set[k] : \A t \in s.expires_at :
             reply'[c] = IF now >= t THEN Null ELSE Bulk(s.data)]_vars

\* C4. Eventual expiry: an entry set with expiry t is eventually removed
\* (or overwritten) once the clock reaches t, under fair scheduling.
EventualExpiry ==
    \A k \in Keys, t \in 0..MaxTime : ExpiresAt(k, t) ~> ~ExpiresAt(k, t)

\* The connections subscribed to ch: those holding a stream for it, or a
\* receiver for it that is about to be inserted.
SubscribedConns(ch) ==
    {c \in PsConns : \/ ch \in SmKeys(subscriptions[c])
                     \/ \E rx \in pending_rx[c] : rx.channel = ch}

\* C5. PUBLISH count: PUBLISH on ch answers with exactly the number of
\* connections subscribed to ch when the publish is applied, a connection
\* counted once however often it sent SUBSCRIBE ch, and 0 without subscriber.
PublishCount ==
    [][\A c \in PsConns, ch \in Channels : Publish(c, ch) =>
          written'[c][Len(written'[c])] = Integer(Cardinality(SubscribedConns(ch)))]_vars

\* How many message frames for the value at position i of ch's ring were
\* written to c.
TimesWritten(c, ch, i) ==
    Cardinality({j \in DOMAIN written[c] :
                    written[c][j] = MessageFrame(ch, sent[ch][i])})

\* C6. Fan-out delivery: once X has been sent the confirmation for ch, every
\* later PUBLISH ch m is written to X exactly once (here: is written once, or
\* is still queued in X's receiver and not written), while X stays
\* subscribed and does not fall more than the ring capacity behind,
\* whatever further commands X sends, a repeated SUBSCRIBE ch included.
FanOutDelivery ==
    \A c \in PsConns : \A ch \in DOMAIN hist[c] :
       LET next == SmNext(subscriptions[c], ch)
       IN (~hist[c][ch].lagged /\ next + RingCapacity >= Len(sent[ch])) =>
             \A i \in (hist[c][ch].confirmed + 1)..Len(sent[ch]) :
                TimesWritten(c, ch, i) = IF i <= next THEN 1 ELSE 0

\* The payloads of the message frames for ch written to c, in order.
MessageFrames(c, ch) ==
    SelectSeq(written[c], LAMBDA f : f.kind = "message" /\ f.channel = ch)
Messages(c, ch) == [i \in DOMAIN MessageFrames(c, ch) |-> MessageFrames(c, ch)[i].n]

\* The position of payload m in ch's ring, 0 if it was never sent on ch.
PositionOf(ch, m) ==
    IF \E i \in DOMAIN sent[ch] : sent[ch][i] = m
    THEN CHOOSE i \in DOMAIN sent[ch] : sent[ch][i] = m
    ELSE 0

\* Sequence s is a subsequence of ch's publication order, nothing repeated.
InPublicationOrder(ch, s) ==
    /\ \A i \in DOMAIN s : PositionOf(ch, s[i]) > 0
    /\ \A i \in DOMAIN s, j \in DOMAIN s :
          i < j => PositionOf(ch, s[i]) < PositionOf(ch, s[j])

\* C7. Per-topic ordering: the message frames written to one subscriber for
\* one channel are a subsequence of the publication order, nothing repeated
\* or reordered; a subscriber that never lagged has been written exactly the
\* values published since its confirmation, in order (so far: a prefix).
PerTopicOrdering ==
    \A c \in PsConns, ch \in Channels :
       /\ InPublicationOrder(ch, Messages(c, ch))
       /\ (ch \in DOMAIN hist[c] /\ ~hist[c][ch].lagged) =>
             LET first == hist[c][ch].confirmed
                 since == SelectSeq(Messages(c, ch),
                                    LAMBDA m : PositionOf(ch, m) > first)
             IN /\ Len(since) <= Len(sent[ch]) - first
                /\ \A i \in DOMAIN since : since[i] = sent[ch][first + i]

\* PUBLISH is never made to wait for a subscriber.
PublishNeverBlocks ==
    \A c \in Publishers, ch \in Channels :
       (ps_pc[c] = "normal" /\ npub < MaxPublish) => ENABLED Publish(c, ch)

\* A value the current stream of c for ch has gone past without writing it
\* is one the ring no longer retains.
OnlyOldestLost ==
    \A c \in PsConns : \A ch \in DOMAIN hist[c] :
       \A i \in (hist[c][ch].from + 1)..SmNext(subscriptions[c], ch) :
          TimesWritten(c, ch, i) = 1 \/ i <= Len(sent[ch]) - RingCapacity

\* The Lagged arm writes nothing and leaves the connection subscribed.
LaggedIsSilent ==
    \A c \in PsConns, ch \in Channels : SkipLagged(c, ch) =>
       /\ written' = written
       /\ ps_pc'[c] = "subscribed"
       /\ SmKeyList(subscriptions'[c]) = SmKeyList(subscriptions[c])

\* C8. Slow-subscriber tolerance: PUBLISH never waits for a subscriber; a
\* subscriber more than the ring capacity behind loses only the oldest
\* values, stays subscribed, writes no frame for the gap, and goes on to
\* receive what the ring retains.
SlowSubscriberTolerance ==
    /\ []PublishNeverBlocks
    /\ []OnlyOldestLost
    /\ [][LaggedIsSilent]_vars

\* C8 witness: x lagged on ch1, lost the oldest of three values and was
\* written the two the ring retained.
SlowSubscriberWitness ==
    /\ "ch1" \in DOMAIN hist["x"] /\ hist["x"]["ch1"].lagged
    /\ Len(sent["ch1"]) = RingCapacity + 1
    /\ Messages("x", "ch1") = SubSeq(sent["ch1"], 2, RingCapacity + 1)

\* The handler tasks inside Handler::run.
InRun == {h \in Handlers : h_state[h] = "running"}

\* C9. Connection cap: the handler tasks inside Handler::run never number
\* more than the semaphore's permits, whatever the accepts and terminations.
ConnectionCap == Cardinality(InRun) <= MAX_CONNECTIONS

\* C9 witness: the cap is reached after an earlier handler has terminated
\* with an error and released its permit; no permit is free.
ConnectionCapWitness ==
    /\ Cardinality(InRun) = MAX_CONNECTIONS
    /\ \E h \in Handlers : h_state[h] = "gone" /\ h_result[h] = "err"
    /\ permits = 0
    /\ listener_pc = "acquire"

\* C10. Graceful shutdown (safety): when server::run returns, every handler
\* task ever spawned has finished Handler::run and dropped its
\* completion-barrier sender; none still exists.
GracefulShutdownSafety ==
    run_pc = "returned" =>
       \A h \in Handlers : h_state[h] \in {"none", "gone"} /\ ~h_tx[h]

\* C10 witness: server::run has returned after handlers were spawned, one of
\* them having left on the shutdown signal.
GracefulShutdownWitness ==
    /\ run_pc = "returned"
    /\ \A h \in Handlers : h_state[h] = "gone"
    /\ \E h \in Handlers : h_result[h] = "err"
    /\ \E h \in Handlers : h_result[h] = "ok"

\* After the shutdown future resolved no handler task is spawned.
NoAcceptAfterShutdown ==
    run_res = "shutdown" =>
       \A h \in Handlers : h_state[h] = "none" => h_state'[h] = "none"

\* A handler that observed the shutdown and left Handler::run returned Ok.
ShutdownReturnsOk ==
    \A h \in Handlers :
       is_shutdown[h] /\ h_state[h] # "running" => h_result[h] = "ok"

\* C11. Graceful shutdown (liveness): after the shutdown future resolves no
\* further connection is accepted, every handler inside Handler::run leaves
\* it (one that observes the shutdown returns Ok), and server::run
\* eventually returns.
GracefulShutdownLiveness ==
    /\ [][NoAcceptAfterShutdown]_vars
    /\ []ShutdownReturnsOk
    /\ \A h \in Handlers :
          (run_res = "shutdown" /\ h_state[h] = "running")
             ~> (h_state[h] # "running")
    /\ (run_res = "shutdown") ~> (run_pc = "returned")

\* C11 witness: server::run has returned after a shutdown that two handlers
\* observed, each returning Ok.
GracefulShutdownLivenessWitness ==
    /\ run_res = "shutdown"
    /\ run_pc = "returned"
    /\ Cardinality({h \in Handlers : is_shutdown[h]}) >= 2
    /\ \A h \in Handlers : is_shutdown[h] => h_result[h] = "ok"

\* The positions of a handler where a frame is awaited, or a command or a
\* message is being processed.
InCommand == {"apply", "sub_apply"}
Serving == {"select", "sub_select", "sub_write"} \cup InCommand

\* A handler that has observed the shutdown takes up nothing further.
NothingAfterShutdown ==
    \A h \in Handlers : is_shutdown[h] => h_pc'[h] \notin Serving

\* A handler processing a command does not observe the shutdown; it leaves
\* Handler::run from there only with an error.
CommandCompletes ==
    \A h \in Handlers :
       h_pc[h] \in InCommand =>
          /\ ~is_shutdown'[h]
          /\ h_state'[h] # "running" => h_result'[h] = "err"

\* C12. No new command after shutdown is observed: once a handler's
\* Shutdown::recv has completed, it reads and applies no further command in
\* either loop; a command whose frame was read before is applied and
\* answered before the handler exits.
NoNewCommandAfterShutdown ==
    [][NothingAfterShutdown /\ CommandCompletes]_vars

\* C12 witness: a handler has observed the shutdown in the subscription
\* loop and is back at the loop condition of Handler::run.
NoNewCommandWitness ==
    \E h \in Handlers :
       is_shutdown[h] /\ h_state[h] = "running" /\ h_pc[h] = "loop"

\* An error ending one handler leaves every other handler, the listener and
\* server::run where they are.
HandlerErrorIsLocal ==
    \A h \in Handlers :
       h_result[h] # "err" /\ h_result'[h] = "err" =>
          /\ \A g \in Handlers \ {h} :
                h_state'[g] = h_state[g] /\ h_pc'[g] = h_pc[g]
          /\ listener_pc' = listener_pc
          /\ run_pc' = run_pc

\* server::run is past its select only because the shutdown future resolved.
EndsOnlyOnShutdown == run_pc # "select" => run_res = "shutdown"

\* C20. Error isolation: no error ends the server. An error on one
\* connection ends at most that connection, and neither it nor a failed
\* accept stops the listener: server::run leaves its select, and returns,
\* only because the shutdown future resolved.
ErrorIsolation == [][HandlerErrorIsLocal]_vars /\ []EndsOnlyOnShutdown

\* a is a prefix of b; a proper one.
IsPrefix(a, b) == Len(a) <= Len(b) /\ SubSeq(b, 1, Len(a)) = a
IsProperPrefix(a, b) == Len(a) < Len(b) /\ IsPrefix(a, b)

\* The frames read_frame has returned, in order.
RECURSIVE FramesOf(_)
FramesOf(out) ==
    IF out = <<>> THEN <<>>
    ELSE IF Head(out).kind = "frame"
            THEN <<Head(out).frame>> \o FramesOf(Tail(out))
            ELSE FramesOf(Tail(out))

\* The bytes of a sequence of frames written one after the other.
RECURSIVE SerializeAll(_)
SerializeAll(fs) ==
    IF fs = <<>> THEN <<>>
    ELSE write_frame(Head(fs)).bytes \o SerializeAll(Tail(fs))

\* The bytes the socket reads have returned so far.
Arrived == Len(SerializeAll(peer_frames)) - Len(wire)

\* C14. Partial-read resilience: when the bytes of written frames arrive one
\* byte per socket read, read_frame returns each frame exactly once and in
\* order, none before its last byte has arrived, and never fails or aborts on
\* a proper prefix.
PartialReadResilience ==
    bytewise /\ ~raw_sent =>
       /\ \A i \in 1..Len(rf_out) : rf_out[i].kind \notin {"err", "panic"}
       /\ IsPrefix(FramesOf(rf_out), peer_frames)
       /\ Len(SerializeAll(FramesOf(rf_out))) <= Arrived

\* The frame holds no Null inside an Array, at any depth.
RECURSIVE NoNullInArray(_, _)
NoNullInArray(f, inside) ==
    CASE f.type = "Null" -> ~inside
      [] f.type = "Array" ->
           \A i \in 1..Len(f.val) : NoNullInArray(f.val[i], TRUE)
      [] OTHER -> TRUE

\* Bytes that may follow a frame in the buffer.
Trailing == {<<>>, <<"+">>, <<CR, LF>>, <<"$", "1", CR>>}

\* C15. Codec round-trip: for every frame with no Null nested inside an
\* Array, arrays nested in arrays included, parsing the bytes written for it
\* returns the frame and the number of bytes written, whatever follows it in
\* the buffer.
CodecRoundTrip ==
    \A w \in last_write :
       NoNullInArray(w.frame, FALSE) =>
          /\ w.res.kind = "ok"
          /\ \A t \in Trailing :
                parse(w.res.bytes \o t) = Ok(Len(w.res.bytes), w.frame)

\* The line after the tag byte, if it is there.
HasLine(buf) == \E i \in 2..(Len(buf) - 1) : buf[i] = CR /\ buf[i + 1] = LF
LineEnd(buf) ==
    MinOf({i \in 2..(Len(buf) - 1) : buf[i] = CR /\ buf[i + 1] = LF})
FirstLine(buf) == SubSeq(buf, 2, LineEnd(buf) - 1)
AfterLine(buf) == Advance(buf, LineEnd(buf) + 1)

\* A decimal: an optional minus sign and one digit or more.
IsDecimal(line) ==
    LET body == IF line # <<>> /\ Head(line) = "-" THEN Tail(line) ELSE line
    IN  body # <<>> /\ \A i \in 1..Len(body) : IsDigit(body[i])
DecimalOf(line) ==
    IF Head(line) = "-" THEN 0 - FromRadix10(Tail(line), 0)
                        ELSE FromRadix10(line, 0)

\* No further bytes can complete the buffer: the cases of malformed input.
Doomed(buf) ==
    /\ buf # <<>>
    /\ \/ Head(buf) \notin {"+", "-", ":", "$", "*"}
       \/ /\ Head(buf) \in {":", "$", "*"}
          /\ HasLine(buf)
          /\ \/ ~IsDecimal(FirstLine(buf))
             \/ /\ IsDecimal(FirstLine(buf))
                /\ LET n == DecimalOf(FirstLine(buf))
                       data == AfterLine(buf)
                   IN  \/ Head(buf) = "*" /\ n < 0
                       \/ Head(buf) = "$" /\ n < -1
                       \/ /\ Head(buf) = "$" /\ n >= 0
                          /\ \/ Len(data) >= n + 1 /\ data[n + 1] # CR
                             \/ Len(data) >= n + 2 /\ data[n + 2] # LF

\* C16. Incomplete versus malformed: Frame::parse reports a protocol error,
\* not Incomplete and not an abort, for a buffer no further bytes can
\* complete (unknown tag, a line that is no decimal, a Bulk whose payload is
\* not followed by CRLF, a negative array count, a negative bulk length other
\* than -1), and reports Incomplete for no such buffer.
IncompleteOrMalformed ==
    \A lp \in last_parse :
       /\ Doomed(lp.buf) => lp.res.kind = "error"
       /\ lp.res.kind = "incomplete" => ~Doomed(lp.buf)

\* The buffer holds the first bytes of a frame, not all of them.
Unfinished(buf) ==
    /\ buf # <<>>
    /\ \E f \in Frames :
          /\ write_frame(f).kind = "ok"
          /\ IsProperPrefix(buf, write_frame(f).bytes)

\* What read_frame returned last.
LastReturned == rf_out[Len(rf_out)]

\* None is returned only after the peer closed, on an empty buffer, and after
\* every frame that was written.
NoneOnlyOnCleanClose ==
    rf_pc = "ended" /\ LastReturned.kind = "none" =>
       /\ peer_closed /\ wire = <<>> /\ buffer = <<>>
       /\ ~raw_sent => FramesOf(rf_out) = peer_frames

\* A read_frame that ends when the peer has closed on an unfinished frame
\* ends with an error; one that ends on an empty buffer then returns None.
CloseEndsReadFrame ==
    rf_pc # "ended" /\ rf_pc' = "ended" /\ peer_closed /\ wire = <<>> =>
       /\ Unfinished(buffer) => rf_out'[Len(rf_out')].kind \in {"err", "io_err"}
       /\ buffer = <<>> => rf_out'[Len(rf_out')].kind \in {"none", "io_err"}

\* C17. End of stream: read_frame returns None if and only if the peer closed
\* while the read buffer was empty; if the peer closed while the buffer holds
\* an unfinished frame it returns an error; a frame buffered before the close
\* is returned before None.
EndOfStream == []NoneOnlyOnCleanClose /\ [][CloseEndsReadFrame]_vars


\* ---------------------------------------------------------------- C13
\* The numbers of the commands answered, in the order of the frames written,
\* the pushed message frames left out.
ReplySeqs == SelectSeq(conn_out, LAMBDA o : o.seq > 0)

\* The numbers of the commands still buffered.
BufferedSeqs == {conn_in[i].seq : i \in DOMAIN conn_in}

\* How many frames answer command n.
Replies(n) == Cardinality({i \in DOMAIN conn_out : conn_out[i].seq = n})

\* Command n is a GET, SET, PUBLISH, PING or unknown command.
SingleReply(n) ==
    from_frame(conn_log[n]).tag \in {"Get", "Set", "Publish", "Ping", "Unknown"}

\* C13: on the connection the replies are written in the order the commands
\* arrived, and every GET, SET, PUBLISH, PING or unknown command that was
\* taken from the buffer has exactly one reply (and none before it is taken),
\* whatever was pipelined and whatever message frames were pushed in between.
ReplyOrdering ==
    /\ \A i, j \in DOMAIN ReplySeqs :
          i < j => ReplySeqs[i].seq <= ReplySeqs[j].seq
    /\ \A n \in DOMAIN conn_log :
          /\ n \in BufferedSeqs => Replies(n) = 0
          /\ (n \notin BufferedSeqs /\ SingleReply(n)) => Replies(n) = 1

\* A reply, then a pushed message frame, then the reply to a later command
\* that was taken while another command was buffered behind it.
ReplyOrderingWitness ==
    \E i, j, k \in DOMAIN conn_out :
        /\ i < j /\ j < k
        /\ conn_out[i].seq > 0
        /\ conn_out[j].seq = 0
        /\ conn_out[k].seq > conn_out[i].seq
        /\ conn_out[k].buffered >= 2
        /\ SingleReply(conn_out[k].seq)

\* ---------------------------------------------------------------- C18
\* The names the subscription loop honours.
SubscribeModeNames == {"subscribe", "unsubscribe"}

\* The loop of Subscribe::apply takes the command at the front of the buffer,
\* well-formed and neither SUBSCRIBE nor UNSUBSCRIBE.
RefusedStep ==
    /\ conn_pc = "subscribe"
    /\ conn_in # <<>>
    /\ Len(conn_in') < Len(conn_in)
    /\ from_frame(Head(conn_in).frame) # CmdErr
    /\ Head(Head(conn_in).frame) \notin SubscribeModeNames

\* The Error frame naming the command the client sent.
UnknownCommandError(item) ==
    [seq |-> item.seq, buffered |-> Len(conn_in),
     frame |-> ErrorFrame(<<"ERR unknown command '", Head(item.frame), "'">>)]

\* What a refused command leaves alone: keyspace, expiration index, topics,
\* what was published and the connection's subscriptions.
RefusedEffect ==
    /\ UNCHANGED <<entries, expirations, pub_sub, sent, conn_subs>>
    /\ conn_pc' = "subscribe"

\* C18: in the subscription loop a well-formed command other than SUBSCRIBE
\* and UNSUBSCRIBE is answered with "ERR unknown command '<name>'", <name>
\* being the name the client sent, is not applied, leaves the subscriptions
\* unchanged, and the loop continues.
RefusedInSubscribeMode ==
    [][RefusedStep =>
          /\ conn_out' = Append(conn_out, UnknownCommandError(Head(conn_in)))
          /\ RefusedEffect]_vars

\* ---------------------------------------------------------------- C19
\* The command names Command::from_frame recognises.
CommandNames == {"get", "set", "publish", "subscribe", "unsubscribe", "ping"}

\* The normal loop takes a command whose name is none of the recognised ones.
UnknownStep ==
    /\ conn_pc = "normal"
    /\ conn_in # <<>>
    /\ Len(conn_in') < Len(conn_in)
    /\ Head(conn_in).frame # <<>>
    /\ Head(Head(conn_in).frame) \notin CommandNames

\* An unknown command is answered with the Error frame naming it, changes no
\* shared state and leaves the connection in the normal loop.
UnknownAnswered ==
    UnknownStep =>
        /\ conn_out' = Append(conn_out, UnknownCommandError(Head(conn_in)))
        /\ UNCHANGED <<entries, expirations, pub_sub, sent, db_shutdown>>
        /\ conn_pc' = "normal"
        /\ conn_subs' = conn_subs

\* In the normal loop a buffered command can always be taken.
NextIsProcessed ==
    (conn_pc = "normal" /\ conn_in # <<>>) => ENABLED ConnApply

\* C19: in the normal loop a command whose name is none of get, set, publish,
\* subscribe, unsubscribe, ping (in that very case) is answered with
\* "ERR unknown command '<name>'", changes no shared state, and the
\* connection stays open: the next command is processed.
UnknownCommand == [][UnknownAnswered]_vars /\ []NextIsProcessed

\* "GET" in upper case was answered as unknown and the GET after it was
\* answered with the value a SET had stored before.
UnknownCommandWitness ==
    \E i \in DOMAIN conn_out :
        /\ i + 1 \in DOMAIN conn_out
        /\ conn_out[i].seq > 0
        /\ conn_log[conn_out[i].seq] = <<"GET", "k1">>
        /\ conn_out[i].frame = ErrorFrame(<<"ERR unknown command '", "GET", "'">>)
        /\ conn_out[i + 1].seq = conn_out[i].seq + 1
        /\ conn_out[i + 1].frame = Bulk("v1")
        /\ conn_pc = "normal"


\* ---------------------------------------------------------------- C21
\* The normal loop takes a command of a recognised name that does not decode
\* (its arguments do not match its shape) or that is UNSUBSCRIBE.
ProtocolErrorStep ==
    /\ conn_pc = "normal"
    /\ conn_in # <<>>
    /\ Len(conn_in') < Len(conn_in)
    /\ Head(conn_in).frame # <<>>
    /\ Head(Head(conn_in).frame) \in CommandNames
    /\ from_frame(Head(conn_in).frame).tag \in {"Err", "Unsubscribe"}

\* The command changes no shared state and ends the connection.
ProtocolErrorCloses ==
    /\ UNCHANGED <<entries, expirations, pub_sub, sent>>
    /\ conn_pc' = "closed"

\* One frame is written for the command, an Error frame.
ErrorFrameWritten ==
    /\ Len(conn_out') = Len(conn_out) + 1
    /\ conn_out'[Len(conn_out')].seq = Head(conn_in).seq
    /\ conn_out'[Len(conn_out')].frame.type = "Error"

\* C21: a command of a recognised name whose arguments do not match its
\* shape (or UNSUBSCRIBE in the normal loop) has an Error frame written to
\* the client before the connection ends, and changes no shared state.
ProtocolErrorReported ==
    [][ProtocolErrorStep => ErrorFrameWritten /\ ProtocolErrorCloses]_vars


\* ---------------------------------------------------------------- C22
\* The sweeper runs Shared::clean_expired_tasks with the shutdown flag unset.
SweepStep ==
    /\ sweeper_pc = "sweep"
    /\ sweeper_pc' = "arm"
    /\ ~db_shutdown

\* Key k holds an entry whose expiry is not after now.
Due(k) == k \in DOMAIN entries /\ \E t \in entries[k].expires_at : t <= now

\* The expiries of the index after the step.
RemainingTimes == {p[1] : p \in expirations'}

\* C22: a sweep at time now removes from entries and from the index exactly
\* the keys whose expiry is <= now: no such entry remains (a GET on such a
\* key finds nothing), every other entry is untouched, and the wake time
\* returned is the smallest expiry left in the index, None if it is empty.
SweepExactness ==
    [][SweepStep =>
          /\ DOMAIN entries' = {k \in DOMAIN entries : ~Due(k)}
          /\ \A k \in DOMAIN entries' : entries'[k] = entries[k]
          /\ \A k \in Keys : Due(k) => DbGet(k)' = {}
          /\ expirations' = {p \in expirations : p[1] > now}
          /\ \A p \in expirations' : p[1] > now
          /\ IF expirations' = {}
             THEN sweeper_when' = {}
             ELSE /\ sweeper_when' \subseteq RemainingTimes
                  /\ \E t \in sweeper_when' : \A u \in RemainingTimes : t <= u]_vars

\* A sweep has just removed one key, whose last SET gave it an expiry that
\* has passed, and has left the other key, which expires later; the wake
\* time is that key's expiry.
SweepExactnessWitness ==
    /\ sweeper_pc = "arm"
    /\ ~db_shutdown
    /\ \E k \in Keys :
          /\ k \notin DOMAIN entries
          /\ \E e \in last_set[k] : \E t \in e.expires_at : t <= now
    /\ \E p \in expirations : p[1] > now /\ sweeper_when = {p[1]}


\* ---------------------------------------------------------------- C23
\* Once the shutdown flag is set, nothing is removed any more.
NoRemovalAfterShutdown ==
    db_shutdown => /\ entries' = entries
                   /\ expirations' = expirations

\* The sweeper task has returned.
SweeperExited == sweeper_pc = "done"

\* C23: after the drop guard has set the shutdown flag and woken the
\* notifier, the sweeper task eventually exits and removes nothing more,
\* at whatever point of its cycle the shutdown arrives.
SweeperTermination ==
    /\ [][NoRemovalAfterShutdown]_vars
    /\ db_shutdown ~> SweeperExited

\* ---------------------------------------------------------------- C24
\* Handler task h has been spawned and has not yet ended.
HandlerLive(h) == h_state[h] \notin {"none", "gone"}

\* The flag is set only when no handler is left and the barrier has closed.
FlagAfterHandlers ==
    db_shutdown => /\ \A h \in Handlers : ~HandlerLive(h)
                   /\ BarrierClosed
                   /\ run_pc = "returned"

\* While a handler is live the sweeper has not exited, and a sweep it runs
\* removes every key whose expiry has passed.
SweptWhileServing ==
    (\E h \in Handlers : HandlerLive(h)) =>
        /\ sweeper_pc # "done"
        /\ (sweeper_pc = "sweep" /\ sweeper_pc' = "arm") =>
              \A k \in Keys : Due(k) => k \notin DOMAIN entries'

\* C24: the shutdown flag of the shared state is set only after every
\* handler has exited and the completion barrier has closed; while a handler
\* is still running the flag is unset and expired keys go on being swept.
SweeperShutdownOrdering ==
    /\ []FlagAfterHandlers
    /\ [][SweptWhileServing]_vars

\* The flag is set, and the handlers that were spawned have ended; one of
\* them had stored a key, which the sweeper removed when its expiry passed.
SweeperShutdownOrderingWitness ==
    /\ db_shutdown
    /\ \A h \in LifecycleHandlers : h_state[h] = "gone"
    /\ "k1" \notin DOMAIN entries
    /\ \E e \in last_set["k1"] : e.expires_at # {}


\* ---------------------------------------------------------------- C25
\* The handler tasks that hold a permit: spawned, drop(permit) not yet run.
HoldingPermit == {h \in Handlers : h_state[h] \in {"running", "returned"}}

\* The permit the accept loop holds between acquire_owned and the spawn.
ListenerPermit == IF listener_pc = "accept" THEN 1 ELSE 0

\* Free permits, permits of live handlers and the accept loop's permit add
\* up to the limit.
PermitConservation ==
    permits + Cardinality(HoldingPermit) + ListenerPermit = MAX_CONNECTIONS

\* A connection is accepted only by a loop that holds a permit, so never
\* when as many handlers as the limit are live.
AcceptHoldsPermit ==
    (\E h \in Handlers : h_state[h] = "none" /\ h_state'[h] = "running") =>
        /\ listener_pc = "accept"
        /\ Cardinality(HoldingPermit) < MAX_CONNECTIONS

\* A handler gives back exactly one permit when its task ends, whatever
\* Handler::run returned.
OnePermitBack ==
    \A h \in Handlers :
        (h_state[h] = "returned" /\ h_state'[h] # "returned") =>
            permits' = permits + 1

\* The accept loop waits for a permit while a handler has terminated.
WaitingWhileTerminated ==
    /\ run_pc = "select"
    /\ listener_pc = "acquire"
    /\ permits = 0
    /\ \E h \in Handlers : h_state[h] = "returned"

\* The accept loop has its permit, or the server has left its select.
AcceptProceeds == listener_pc = "accept" \/ run_pc # "select"

\* C25: the accept loop accepts only while it holds a freshly acquired
\* permit, so nothing is accepted while as many handlers as the limit are
\* live; every handler releases exactly one permit when it terminates, with
\* Ok or with an error, so free permits, permits of live handlers and the
\* accept loop's permit always add up to the limit, and a waiting accept
\* loop proceeds once a handler has terminated.
PermitBackpressure ==
    /\ []PermitConservation
    /\ [][AcceptHoldsPermit /\ OnePermitBack]_vars
    /\ WaitingWhileTerminated ~> AcceptProceeds

\* As many handlers as the limit hold a permit, the accept loop waits for
\* one, and a handler has just returned an error.
PermitBackpressureWitness ==
    /\ WaitingWhileTerminated
    /\ Cardinality(HoldingPermit) = MAX_CONNECTIONS
    /\ \E h \in Handlers : h_state[h] = "returned" /\ h_result[h] = "err"


\* ---------------------------------------------------------------- C26
\* The elements of a sequence.
Range(q) == {q[i] : i \in DOMAIN q}

\* The frames the step has written.
NewOut == SubSeq(conn_out', Len(conn_out) + 1, Len(conn_out'))

\* The subscription loop takes an UNSUBSCRIBE.
UnsubscribeStep ==
    /\ conn_pc = "subscribe"
    /\ conn_in # <<>>
    /\ Len(conn_in') < Len(conn_in)
    /\ Head(conn_in).frame # <<>>
    /\ Head(Head(conn_in).frame) = "unsubscribe"

\* The channels the UNSUBSCRIBE lists, and those it has to remove.
Listed == Tail(Head(conn_in).frame)
ToRemove == IF Listed = <<>> THEN SmKeys(conn_subs) ELSE Range(Listed)

\* Exactly the channels to remove are gone; the streams of the others are as
\* they were.
RemovesListed ==
    /\ SmKeys(conn_subs') = SmKeys(conn_subs) \ ToRemove
    /\ \A ch \in SmKeys(conn_subs') :
          SmNext(conn_subs', ch) = SmNext(conn_subs, ch)
    /\ conn_pc' = "subscribe"

\* One unsubscribe frame per channel processed, in the order listed, each
\* with the number of channels still subscribed after that removal.
UnsubscribeReplies ==
    /\ SubSeq(conn_out', 1, Len(conn_out)) = conn_out
    /\ Len(NewOut) = IF Listed = <<>> THEN Cardinality(SmKeys(conn_subs))
                                      ELSE Len(Listed)
    /\ \A i \in DOMAIN NewOut :
          /\ NewOut[i].seq = Head(conn_in).seq
          /\ NewOut[i].frame.kind = "unsubscribe"
          /\ Listed # <<>> => NewOut[i].frame.channel = Listed[i]
          /\ NewOut[i].frame.n =
                Cardinality(SmKeys(conn_subs)
                            \ {NewOut[j].frame.channel : j \in 1..i})
    /\ Listed = <<>> =>
          /\ {NewOut[i].frame.channel : i \in DOMAIN NewOut} = SmKeys(conn_subs)
          /\ NewOut # <<>> => NewOut[Len(NewOut)].frame.n = 0

\* A message frame is written only for a channel the connection is
\* subscribed to, and a PUBLISH on a channel it is not subscribed to does
\* not reach it: the ring of that channel takes no value for it.
OnlySubscribedChannels ==
    /\ \A i \in DOMAIN NewOut :
          NewOut[i].seq = 0 => NewOut[i].frame.channel \in SmKeys(conn_subs)
    /\ \A ch \in Channels :
          ch \notin SmKeys(conn_subs) => sent'[ch] = sent[ch]

\* C26: in the subscription loop UNSUBSCRIBE with a list removes exactly the
\* listed channels and leaves the others subscribed, with an empty list it
\* removes every channel; one Array[unsubscribe, channel, n] is written per
\* channel processed, n being the channels still subscribed after that
\* removal (0 at the end of the empty-list form); no message of a removed
\* channel is written afterwards and a PUBLISH on it no longer counts the
\* connection.
UnsubscribeExact ==
    [][/\ UnsubscribeStep => RemovesListed /\ UnsubscribeReplies
       /\ OnlySubscribedChannels]_vars

\* Subscribed to ch1 and ch2, the connection has unsubscribed from ch1 and
\* been told one channel remains; a message of ch2 was written after that.
UnsubscribeExactWitness ==
    /\ SmKeys(conn_subs) = {"ch2"}
    /\ \E i, j \in DOMAIN conn_out :
          /\ i < j
          /\ conn_out[i].seq > 0
          /\ conn_log[conn_out[i].seq] = <<"unsubscribe", "ch1">>
          /\ conn_out[i].frame = UnsubscribeFrame("ch1", 1)
          /\ conn_out[j].seq = 0
          /\ conn_out[j].frame.channel = "ch2"


\* ---------------------------------------------------------------- C27
\* Either loop takes a SUBSCRIBE that names at least one channel.
SubscribeStep ==
    /\ conn_pc \in {"normal", "subscribe"}
    /\ conn_in # <<>>
    /\ Len(conn_in') < Len(conn_in)
    /\ Len(Head(conn_in).frame) >= 2
    /\ Head(Head(conn_in).frame) = "subscribe"

\* The channels the connection is subscribed to after the first i channels
\* of the list have been added.
SubscribedAfter(i) == SmKeys(conn_subs) \cup {Listed[j] : j \in 1..i}

\* C27: for each channel a SUBSCRIBE names, in the normal loop or in the
\* subscription loop, Array[subscribe, channel, n] is written, in the order
\* listed, n being the number of distinct channels the connection is
\* subscribed to right after adding that channel; a channel already
\* subscribed does not raise n.
SubscribeConfirmations ==
    [][SubscribeStep =>
          /\ SubSeq(conn_out', 1, Len(conn_out)) = conn_out
          /\ Len(NewOut) = Len(Listed)
          /\ \A i \in DOMAIN NewOut :
                /\ NewOut[i].seq = Head(conn_in).seq
                /\ NewOut[i].frame =
                      SubscribeFrame(Listed[i], Cardinality(SubscribedAfter(i)))
          /\ SmKeys(conn_subs') = SubscribedAfter(Len(Listed))
          /\ conn_pc' = "subscribe"]_vars

\* SUBSCRIBE ch1 ch2 was confirmed with 1 and 2, and a later SUBSCRIBE ch1,
\* taken in the subscription loop, was confirmed with 2 again.
SubscribeConfirmationsWitness ==
    \E i \in DOMAIN conn_out :
        /\ i + 2 \in DOMAIN conn_out
        /\ conn_out[i].frame = SubscribeFrame("ch1", 1)
        /\ conn_out[i + 1].frame = SubscribeFrame("ch2", 2)
        /\ conn_out[i + 1].seq = conn_out[i].seq
        /\ \E j \in DOMAIN conn_out :
              /\ j > i + 1
              /\ conn_out[j].seq > conn_out[i].seq
              /\ conn_out[j].frame = SubscribeFrame("ch1", 2)


\* ---------------------------------------------------------------- C28
\* The step takes a command from the buffer.
TakesCommand == conn_in # <<>> /\ Len(conn_in') < Len(conn_in)

\* The connection ends with nothing taken from the buffer: read_frame
\* returned None on the client's close, or shutdown fired.
ClosedOrShutdown == conn_pc' = "closed" /\ conn_in' = conn_in

\* The connection ends on a frame that does not decode to a command.
EndsOnError ==
    /\ conn_pc' = "closed"
    /\ TakesCommand
    /\ from_frame(Head(conn_in).frame) = CmdErr

\* In the subscription loop nothing is applied to the keyspace, and only
\* another connection's PUBLISH adds to a ring.
NothingApplied ==
    /\ entries' = entries
    /\ expirations' = expirations
    /\ sent' # sent => npub' = npub + 1

\* A SUBSCRIBE taken in the subscription loop subscribes and confirms the
\* channels it lists.
LaterSubscribeHonoured ==
    SubscribeStep =>
        /\ Range(Listed) \subseteq SmKeys(conn_subs')
        /\ Len(NewOut) = Len(Listed)
        /\ \A i \in DOMAIN NewOut : NewOut[i].frame.kind = "subscribe"

\* C28 as stated: once a connection has processed SUBSCRIBE it leaves the
\* subscription loop only when the client closes or shutdown fires, also
\* with no channel subscribed; GET, SET, PUBLISH and PING are never applied
\* on it and a later SUBSCRIBE is still honoured.
SubscribeModeAbsorbingStrict ==
    [][conn_pc = "subscribe" =>
          /\ conn_pc' = "subscribe" \/ ClosedOrShutdown
          /\ NothingApplied
          /\ LaterSubscribeHonoured]_vars

\* C28, amended: once a connection has processed SUBSCRIBE it never returns
\* to the normal loop, also with no channel subscribed; it leaves the
\* subscription loop only when the client closes, shutdown fires or a frame
\* that does not decode ends the connection; GET, SET, PUBLISH and PING are
\* never applied on it and a later SUBSCRIBE is still honoured.
SubscribeModeAbsorbing ==
    [][conn_pc = "subscribe" =>
          /\ conn_pc' = "subscribe" \/ ClosedOrShutdown \/ EndsOnError
          /\ NothingApplied
          /\ LaterSubscribeHonoured]_vars

\* The connection subscribed to ch1, unsubscribed from everything, was told
\* no channel remains, and a SUBSCRIBE sent after that was confirmed: it is
\* still in the subscription loop.
SubscribeModeAbsorbingWitness ==
    /\ conn_pc = "subscribe"
    /\ Len(conn_out) >= 3
    /\ conn_out[1].frame = SubscribeFrame("ch1", 1)
    /\ conn_out[2].frame = UnsubscribeFrame("ch1", 0)
    /\ conn_out[3].frame = SubscribeFrame("ch1", 1)
    /\ conn_out[3].seq = 3


\* ---------------------------------------------------------------- C29
\* What read_frame has returned, what the buffer holds and what the socket
\* has yet to deliver make up the bytes the peer wrote, in order.
NoByteLost ==
    SerializeAll(FramesOf(rf_out)) \o buffer \o wire = SerializeAll(peer_frames)

\* Every frame returned is a frame the peer wrote, each once and in order,
\* and no call of read_frame failed or aborted.
ParsedOnce ==
    /\ IsPrefix(FramesOf(rf_out), peer_frames)
    /\ \A i \in 1..Len(rf_out) : rf_out[i].kind \notin {"err", "panic"}

\* C29: when a pending read_frame is abandoned because another branch of the
\* select won, the bytes already read stay in the connection's buffer, so
\* frames that arrive split across reads with such turns in between are
\* still parsed exactly once, no byte lost, duplicated or reordered.
SelectCancellationSafe ==
    (rf_abandoned /\ ~raw_sent) => NoByteLost /\ ParsedOnce

====
